---------------------------- MODULE Spec2Model ----------------------------
(***************************************************************************)
(* Model of schedule.js (src/unnamed/part_000): the schedule pipeline of   *)
(* the Park City Olympics 2026 tracker.                                    *)
(*                                                                         *)
(*   - text helpers: the JavaScript string operations the code relies on   *)
(*     (indexOf, toLowerCase, trim, global replace, split, parseInt),      *)
(*     computed on TLA+ strings character by character;                    *)
(*   - the Event Normalizer (normalizeAPIData and its helpers);            *)
(*   - the Broadcast Rule Engine (applyBroadcastRules, cetToMountain);     *)
(*   - the Roster Matcher (matchScheduleToAthletes);                       *)
(*   - the Schedule Orchestrator (fetchSchedule, backgroundRefresh, the    *)
(*     localStorage cache and the refresh throttle) as a state machine.    *)
(*                                                                         *)
(* Two specifications share the variables: Spec is the orchestrator with   *)
(* its clock, storage and promises; SpecPipeline runs the pure pipeline    *)
(* normalize -> broadcast rules -> match on inputs drawn from bounded sets.*)
(***************************************************************************)
EXTENDS Integers, Sequences, FiniteSets, TLC

(***************************************************************************)
(* JavaScript values that are not strings, numbers or objects.             *)
(***************************************************************************)
\* null / undefined: an absent field of a raw record, a missing storage item
Null == "<null>"

(***************************************************************************)
(* Text helpers.  Strings are TLA+ strings; positions are 1-based here,    *)
(* IndexOf returns the JavaScript 0-based index (-1 when absent).          *)
(***************************************************************************)
CharAt(s, i) == SubSeq(s, i, i)

UpperToLower ==
    [c \in {"A","B","C","D","E","F","G","H","I","J","K","L","M",
            "N","O","P","Q","R","S","T","U","V","W","X","Y","Z"} |->
       CASE c = "A" -> "a" [] c = "B" -> "b" [] c = "C" -> "c" [] c = "D" -> "d"
         [] c = "E" -> "e" [] c = "F" -> "f" [] c = "G" -> "g" [] c = "H" -> "h"
         [] c = "I" -> "i" [] c = "J" -> "j" [] c = "K" -> "k" [] c = "L" -> "l"
         [] c = "M" -> "m" [] c = "N" -> "n" [] c = "O" -> "o" [] c = "P" -> "p"
         [] c = "Q" -> "q" [] c = "R" -> "r" [] c = "S" -> "s" [] c = "T" -> "t"
         [] c = "U" -> "u" [] c = "V" -> "v" [] c = "W" -> "w" [] c = "X" -> "x"
         [] c = "Y" -> "y" [] c = "Z" -> "z"]

LowerChar(c) == IF c \in DOMAIN UpperToLower THEN UpperToLower[c] ELSE c

RECURSIVE LowerFrom(_, _)
LowerFrom(s, i) ==
    IF i > Len(s) THEN "" ELSE LowerChar(CharAt(s, i)) \o LowerFrom(s, i + 1)

\* String.prototype.toLowerCase
ToLowerCase(s) == LowerFrom(s, 1)

\* does pat occur in s at 1-based position i
MatchesAt(s, pat, i) ==
    /\ i >= 1
    /\ i + Len(pat) - 1 <= Len(s)
    /\ SubSeq(s, i, i + Len(pat) - 1) = pat

RECURSIVE FindFrom(_, _, _)
FindFrom(s, pat, i) ==
    IF i + Len(pat) - 1 > Len(s) THEN 0
    ELSE IF MatchesAt(s, pat, i) THEN i
    ELSE FindFrom(s, pat, i + 1)

\* String.prototype.indexOf: 0-based index of the first occurrence, or -1
IndexOf(s, pat) == FindFrom(s, pat, 1) - 1

\* the idiom  s.indexOf(pat) !== -1
Has(s, pat) == IndexOf(s, pat) # -1

\* s.replace(/pat/g, ''): every occurrence removed in one left-to-right scan
RECURSIVE RemoveFrom(_, _, _)
RemoveFrom(s, pat, i) ==
    IF i > Len(s) THEN ""
    ELSE IF MatchesAt(s, pat, i) THEN RemoveFrom(s, pat, i + Len(pat))
    ELSE CharAt(s, i) \o RemoveFrom(s, pat, i + 1)

RemoveAll(s, pat) == RemoveFrom(s, pat, 1)

\* the white space the inputs of the model use
IsSpace(c) == c = " "

RECURSIVE TrimLeft(_)
TrimLeft(s) ==
    IF Len(s) > 0 /\ IsSpace(CharAt(s, 1)) THEN TrimLeft(SubSeq(s, 2, Len(s))) ELSE s

RECURSIVE TrimRight(_)
TrimRight(s) ==
    IF Len(s) > 0 /\ IsSpace(CharAt(s, Len(s)))
    THEN TrimRight(SubSeq(s, 1, Len(s) - 1)) ELSE s

\* String.prototype.trim
Trim(s) == TrimRight(TrimLeft(s))

\* \w of a regular expression
IsWordChar(c) ==
    c \in {"a","b","c","d","e","f","g","h","i","j","k","l","m","n","o","p","q",
           "r","s","t","u","v","w","x","y","z","0","1","2","3","4","5","6","7",
           "8","9","_"}
    \/ c \in DOMAIN UpperToLower

\* /\bword\b/.test(s): an occurrence of word with no word character on
\* either side
HasWord(s, word) ==
    \E i \in 1..Len(s) :
        /\ MatchesAt(s, word, i)
        /\ (i = 1 \/ ~IsWordChar(CharAt(s, i - 1)))
        /\ (i + Len(word) > Len(s) \/ ~IsWordChar(CharAt(s, i + Len(word))))

\* a string-valued JavaScript expression used as a condition: '' and
\* null/undefined are falsy
Truthy(v) == v # Null /\ v # ""

\* a || b on string-valued operands
Or(a, b) == IF Truthy(a) THEN a ELSE b

\* Array.prototype.join
RECURSIVE Join(_, _)
Join(parts, sep) ==
    IF Len(parts) = 0 THEN ""
    ELSE IF Len(parts) = 1 THEN parts[1]
    ELSE parts[1] \o sep \o Join(Tail(parts), sep)

(***************************************************************************)
(* Raw source records.  Every string field is a string or Null (absent);   *)
(* the venue is tagged with its JavaScript shape, because the code tests   *)
(* typeof e.venue; is_medal_event is a boolean (an absent flag reads as    *)
(* false at its only use,  e.is_medal_event || false).                     *)
(***************************************************************************)
NoVenue == [kind |-> "null", text |-> "", name |-> Null, city |-> Null]

VenueString(text) == [kind |-> "string", text |-> text, name |-> Null, city |-> Null]

VenueObject(name, city) == [kind |-> "object", text |-> "", name |-> name, city |-> city]

\* e.venue used as a condition: null and '' are falsy, an object is truthy
VenueTruthy(v) ==
    \/ v.kind = "object"
    \/ v.kind = "string" /\ v.text # ""

(***************************************************************************)
(* Sport name mapping                                                      *)
(***************************************************************************)
apiSportNames ==
    [code \in {"alpine_skiing", "biathlon", "bobsleigh", "cross_country_skiing",
               "curling", "figure_skating", "freestyle_skiing", "ice_hockey",
               "luge", "nordic_combined", "short_track", "skeleton",
               "ski_jumping", "ski_mountaineering", "snowboarding",
               "speed_skating"} |->
       CASE code = "alpine_skiing" -> "Alpine Skiing"
         [] code = "biathlon" -> "Biathlon"
         [] code = "bobsleigh" -> "Bobsleigh"
         [] code = "cross_country_skiing" -> "Cross-Country Skiing"
         [] code = "curling" -> "Curling"
         [] code = "figure_skating" -> "Figure Skating"
         [] code = "freestyle_skiing" -> "Freestyle Skiing"
         [] code = "ice_hockey" -> "Ice Hockey"
         [] code = "luge" -> "Luge"
         [] code = "nordic_combined" -> "Nordic Combined"
         [] code = "short_track" -> "Short Track Speed Skating"
         [] code = "skeleton" -> "Skeleton"
         [] code = "ski_jumping" -> "Ski Jumping"
         [] code = "ski_mountaineering" -> "Ski Mountaineering"
         [] code = "snowboarding" -> "Snowboard"
         [] code = "speed_skating" -> "Speed Skating"]

\* apiSportNames[(apiName || '').toLowerCase()] || apiName || ''
displaySportName(apiName) ==
    LET key == ToLowerCase(Or(apiName, ""))
    IN  IF key \in DOMAIN apiSportNames THEN apiSportNames[key]
        ELSE Or(apiName, "")

(***************************************************************************)
(* Unknown event classification                                            *)
(***************************************************************************)
\* (e.venue && e.venue.name) ? e.venue.name.toLowerCase() : ''
\* (the name property of a string venue is undefined)
classifyVenueName(e) ==
    IF VenueTruthy(e.venue) /\ e.venue.kind = "object" /\ Truthy(e.venue.name)
    THEN ToLowerCase(e.venue.name)
    ELSE ""

\* classifyUnknownEvent with the discipline keywords tested ahead of the
\* venue rules
classifyUnknownEvent_KeywordsFirst(e) ==
    LET disc == ToLowerCase(Or(e.discipline, ""))
        venueName == classifyVenueName(e)
    IN  IF Has(disc, "aerials") \/ Has(disc, "moguls") THEN "Freestyle Skiing"
        ELSE IF Has(disc, "freeski") \/ Has(disc, "ski cross") THEN "Freestyle Skiing"
        ELSE IF Has(disc, "slopestyle") /\ Has(disc, "livigno") THEN "Freestyle Skiing"
        ELSE IF Has(disc, "stelvio") \/ Has(disc, "combined") THEN "Alpine Skiing"
        ELSE IF Has(disc, "medal game") \/ Has(disc, "semi-final") THEN "Ice Hockey"
        ELSE IF Has(venueName, "sliding")
        THEN IF \/ Has(disc, "singles") \/ Has(disc, "doubles")
                \/ Has(disc, "mixed team") \/ Has(disc, "team relay")
             THEN "Luge"
             ELSE IF Has(disc, "heat") THEN "Skeleton"
             ELSE "Luge"
        ELSE IF Has(venueName, "ice skating") \/ Has(venueName, "palasharp")
        THEN IF \/ Has(disc, "single skating") \/ Has(disc, "team event")
                \/ Has(disc, "free skating") \/ Has(disc, "ice danc")
                \/ Has(disc, "pairs")
             THEN "Figure Skating"
             ELSE "Short Track Speed Skating"
        ELSE ""

classifyUnknownEvent(e) ==
    LET disc == ToLowerCase(Or(e.discipline, ""))
        venueName == classifyVenueName(e)
    IN  IF Has(venueName, "sliding")
        THEN IF \/ Has(disc, "singles") \/ Has(disc, "doubles")
                \/ Has(disc, "mixed team") \/ Has(disc, "team relay")
             THEN "Luge"
             ELSE IF Has(disc, "heat") THEN "Skeleton"
             ELSE "Luge"
        ELSE IF Has(venueName, "ice skating") \/ Has(venueName, "palasharp")
        THEN IF \/ Has(disc, "single skating") \/ Has(disc, "team event")
                \/ Has(disc, "free skating") \/ Has(disc, "ice danc")
                \/ Has(disc, "pairs")
             THEN "Figure Skating"
             ELSE "Short Track Speed Skating"
        ELSE IF Has(disc, "aerials") \/ Has(disc, "moguls") THEN "Freestyle Skiing"
        ELSE IF Has(disc, "freeski") \/ Has(disc, "ski cross") THEN "Freestyle Skiing"
        ELSE IF Has(disc, "slopestyle") /\ Has(disc, "livigno") THEN "Freestyle Skiing"
        ELSE IF Has(disc, "stelvio") \/ Has(disc, "combined") THEN "Alpine Skiing"
        ELSE IF Has(disc, "medal game") \/ Has(disc, "semi-final") THEN "Ice Hockey"
        ELSE ""

(***************************************************************************)
(* Discipline text cleaning                                                *)
(***************************************************************************)
\* the artifact strings, in the order the replace calls are chained
CleanArtifacts ==
    << "Medal Event",
       "Livigno Aerials & Moguls Park",
       "Livigno Snow Park",
       "Stelvio Ski Centre",
       "Tofane Alpine Skiing Centre",
       "Tesero Cross-Country Skiing Stadium",
       "Predazzo Ski Jumping Stadium",
       "Cortina Sliding Centre",
       "Milano Ice Skating Arena",
       "PalaSharp" >>

RECURSIVE StripArtifacts(_, _)
StripArtifacts(s, k) ==
    IF k > Len(CleanArtifacts) THEN s
    ELSE StripArtifacts(RemoveAll(s, CleanArtifacts[k]), k + 1)

cleanDiscipline(disc) ==
    IF ~Truthy(disc) THEN "" ELSE Trim(StripArtifacts(disc, 1))

(***************************************************************************)
(* Data normalization                                                      *)
(***************************************************************************)
UnknownSport == "unknown"

\* Step 1: the sport, with "unknown" records reclassified
resolveSport(e) ==
    IF ~Truthy(e.sport) \/ e.sport = UnknownSport
    THEN Or(classifyUnknownEvent(e), UnknownSport)
    ELSE displaySportName(e.sport)

\* Step 2: the venue string from the structured field or the embedded text
structuredVenue(e) ==
    IF ~VenueTruthy(e.venue) THEN ""
    ELSE IF e.venue.kind = "string" THEN e.venue.text
    ELSE Join((IF Truthy(e.venue.name) THEN <<e.venue.name>> ELSE <<>>)
              \o (IF Truthy(e.venue.city) THEN <<e.venue.city>> ELSE <<>>), ", ")

embeddedVenue(rawDisc) ==
    IF Has(rawDisc, "Livigno Aerials") THEN "Livigno Aerials & Moguls Park, Livigno"
    ELSE IF Has(rawDisc, "Livigno Snow") THEN "Livigno Snow Park, Livigno"
    ELSE IF Has(rawDisc, "Stelvio") THEN "Stelvio Ski Centre, Bormio"
    ELSE IF Has(rawDisc, "Tofane") THEN "Tofane Alpine Skiing Centre, Cortina"
    ELSE IF Has(rawDisc, "Tesero") THEN "Tesero Cross-Country Skiing Stadium, Tesero"
    ELSE IF Has(rawDisc, "Predazzo") THEN "Predazzo Ski Jumping Stadium, Predazzo"
    ELSE ""

buildVenue(e) ==
    IF structuredVenue(e) # "" THEN structuredVenue(e)
    ELSE embeddedVenue(Or(e.discipline, ""))

\* Step 4: snowboard events labelled Freestyle Skiing
isSnowboardText(rawDiscLower) ==
    \/ Has(rawDiscLower, "sbd ")
    \/ Has(rawDiscLower, "pgs ")
    \/ IndexOf(rawDiscLower, "pgs") = 0
    \/ Has(rawDiscLower, "snowboard")
    \/ Has(rawDiscLower, "sbx")

\* overrideSport without the test of the resolved sport
overrideSport_AnySport(sport, e) ==
    IF isSnowboardText(ToLowerCase(Or(e.discipline, "")))
    THEN "Snowboard"
    ELSE sport

overrideSport(sport, e) ==
    IF sport = "Freestyle Skiing" /\ isSnowboardText(ToLowerCase(Or(e.discipline, "")))
    THEN "Snowboard"
    ELSE sport

\* Step 5: the event gender from all raw text.  RightQuote stands for the
\* typographic apostrophe U+2019, which a TLA+ string cannot hold.
RightQuote == "~"

\* detectGender testing women/ladies ahead of mixed
detectGender_WomenFirst(e) ==
    LET genderSource ==
            ToLowerCase(Join(<< Or(e.discipline, ""), Or(e.event, ""),
                                Or(e.eventName, ""), Or(e.gender, "") >>, " "))
    IN  IF Has(genderSource, "women") \/ Has(genderSource, "ladies") THEN "F"
        ELSE IF Has(genderSource, "mixed") THEN ""
        ELSE IF \/ HasWord(genderSource, "men")
                \/ Has(genderSource, "men's")
                \/ Has(genderSource, "men" \o RightQuote \o "s")
             THEN "M"
        ELSE ""

detectGender(e) ==
    LET genderSource ==
            ToLowerCase(Join(<< Or(e.discipline, ""), Or(e.event, ""),
                                Or(e.eventName, ""), Or(e.gender, "") >>, " "))
    IN  IF Has(genderSource, "mixed") THEN ""
        ELSE IF Has(genderSource, "women") \/ Has(genderSource, "ladies") THEN "F"
        ELSE IF \/ HasWord(genderSource, "men")
                \/ Has(genderSource, "men's")
                \/ Has(genderSource, "men" \o RightQuote \o "s")
             THEN "M"
        ELSE ""

\* the object the map callback of normalizeAPIData returns for one record
normalizeRecord(e) ==
    LET cleaned == cleanDiscipline(e.discipline)
    IN  [ id           |-> Or(e.id, ""),
          date         |-> Or(e.date, ""),
          time         |-> Or(e.time, ""),
          sport        |-> overrideSport(resolveSport(e), e),
          discipline   |-> cleaned,
          event        |-> Or(cleaned, Or(e.event, Or(e.eventName, ""))),
          venue        |-> buildVenue(e),
          isMedalEvent |-> e.is_medal_event,
          status       |-> Or(e.status, "upcoming"),
          eventGender  |-> detectGender(e),
          broadcast    |-> <<>> ]

\* the filter callback without the medal test
keepNormalized_SportOnly(ev) == ev.sport # UnknownSport

\* Step 6: the filter callback
keepNormalized(ev) == ev.sport # UnknownSport /\ ev.isMedalEvent

\* Array.isArray(data) ? data : (data.events || data.schedule || [])
\* A payload is tagged with its shape: "array", "events" (an object with an
\* events array), "schedule" (an object with only a schedule array) or
\* "neither" (an object with neither).
payloadEvents(data) == IF data.kind = "neither" THEN <<>> ELSE data.list

normalizeAPIData(data) ==
    LET events == payloadEvents(data)
    IN  SelectSeq([i \in 1..Len(events) |-> normalizeRecord(events[i])], keepNormalized)

(***************************************************************************)
(* Broadcast rules                                                         *)
(***************************************************************************)
Digits == <<"0", "1", "2", "3", "4", "5", "6", "7", "8", "9">>

IsDigit(c) == \E d \in 1..10 : Digits[d] = c

DigitValue(c) == (CHOOSE d \in 1..10 : Digits[d] = c) - 1

\* the number of leading decimal digits of s from position i
RECURSIVE DigitRun(_, _)
DigitRun(s, i) ==
    IF i <= Len(s) /\ IsDigit(CharAt(s, i)) THEN 1 + DigitRun(s, i + 1) ELSE 0

RECURSIVE DigitsValue(_, _, _)
DigitsValue(s, i, n) ==
    IF n = 0 THEN 0
    ELSE DigitsValue(s, i, n - 1) * 10 + DigitValue(CharAt(s, i + n - 1))

\* isNaN(parseInt(s, 10)): no digit after leading white space and a sign
ParseIntIsNaN(s) ==
    LET t == TrimLeft(s)
        start == IF Len(t) > 0 /\ CharAt(t, 1) \in {"-", "+"} THEN 2 ELSE 1
    IN  DigitRun(t, start) = 0

\* parseInt(s, 10) where it is a number: the leading digits, a sign kept
ParseInt(s) ==
    LET t == TrimLeft(s)
        neg == Len(t) > 0 /\ CharAt(t, 1) = "-"
        start == IF Len(t) > 0 /\ CharAt(t, 1) \in {"-", "+"} THEN 2 ELSE 1
        v == DigitsValue(t, start, DigitRun(t, start))
    IN  IF neg THEN 0 - v ELSE v

\* String(n) for an integer n
RECURSIVE NatToString(_)
NatToString(n) ==
    IF n < 10 THEN Digits[n + 1]
    ELSE NatToString(n \div 10) \o Digits[(n % 10) + 1]

IntToString(n) == IF n < 0 THEN "-" \o NatToString(0 - n) ELSE NatToString(n)

\* timeStr.split(':'): parts[0] and parts[1] (Null when there is no colon)
SplitHead(s) ==
    IF Has(s, ":") THEN SubSeq(s, 1, IndexOf(s, ":")) ELSE s

SplitSecond(s) ==
    IF ~Has(s, ":") THEN Null
    ELSE LET rest == SubSeq(s, IndexOf(s, ":") + 2, Len(s))
         IN  SplitHead(rest)

\* cetToMountain without the wrap of a negative hour
cetToMountain_NoWrap(timeStr) ==
    IF ~Truthy(timeStr) THEN ""
    ELSE LET m == Or(SplitSecond(timeStr), "00")
             h == ParseInt(SplitHead(timeStr)) - 8
         IN  IF ParseIntIsNaN(SplitHead(timeStr)) THEN ""
             ELSE (IF h < 10 THEN "0" ELSE "") \o IntToString(h) \o ":" \o m

cetToMountain(timeStr) ==
    IF ~Truthy(timeStr) THEN ""
    ELSE LET m == Or(SplitSecond(timeStr), "00")
             h0 == ParseInt(SplitHead(timeStr)) - 8
             h == IF h0 < 0 THEN h0 + 24 ELSE h0
         IN  IF ParseIntIsNaN(SplitHead(timeStr)) THEN ""
             ELSE (IF h < 10 THEN "0" ELSE "") \o IntToString(h) \o ":" \o m

\* A rule set: the parsed broadcast.json, or NoRules (null).  The members
\* streaming and medalPrimetime carry a "present" flag (an absent member is
\* undefined in the code); sportNetworks and eventOverrides are functions
\* whose domain holds the keys that are present.
AbsentMember == [present |-> FALSE, network |-> "", type |-> "", time |-> ""]

NoRules ==
    [kind |-> "null", streaming |-> AbsentMember, sportNetworks |-> <<>>,
     medalPrimetime |-> AbsentMember, eventOverrides |-> <<>>]

\* the event with its broadcast list replaced: assign(evt, {broadcast: b})
assign(evt, b) == [evt EXCEPT !.broadcast = b]

\* defaultBroadcasts without the streaming entry
defaultBroadcasts_NoStreaming(evt, rules) ==
    (IF evt.sport \in DOMAIN rules.sportNetworks /\ Truthy(rules.sportNetworks[evt.sport])
     THEN << [network |-> rules.sportNetworks[evt.sport], type |-> "live",
              time |-> cetToMountain(evt.time)] >>
     ELSE <<>>)
    \o
    (IF evt.isMedalEvent /\ rules.medalPrimetime.present
     THEN << [network |-> rules.medalPrimetime.network, type |-> "primetime",
              time |-> rules.medalPrimetime.time] >>
     ELSE <<>>)

\* defaultBroadcasts with the live entry typed like the primetime entry
defaultBroadcasts_LiveAsPrimetime(evt, rules) ==
    (IF evt.sport \in DOMAIN rules.sportNetworks /\ Truthy(rules.sportNetworks[evt.sport])
     THEN << [network |-> rules.sportNetworks[evt.sport], type |-> "primetime",
              time |-> cetToMountain(evt.time)] >>
     ELSE <<>>)
    \o
    (IF evt.isMedalEvent /\ rules.medalPrimetime.present
     THEN << [network |-> rules.medalPrimetime.network, type |-> "primetime",
              time |-> rules.medalPrimetime.time] >>
     ELSE <<>>)
    \o
    (IF rules.streaming.present
     THEN << [network |-> rules.streaming.network,
              type |-> Or(rules.streaming.type, "streaming")] >>
     ELSE <<>>)

\* defaultBroadcasts converting the primetime time like an event time
defaultBroadcasts_PrimetimeConverted(evt, rules) ==
    (IF evt.sport \in DOMAIN rules.sportNetworks /\ Truthy(rules.sportNetworks[evt.sport])
     THEN << [network |-> rules.sportNetworks[evt.sport], type |-> "live",
              time |-> cetToMountain(evt.time)] >>
     ELSE <<>>)
    \o
    (IF evt.isMedalEvent /\ rules.medalPrimetime.present
     THEN << [network |-> rules.medalPrimetime.network, type |-> "primetime",
              time |-> cetToMountain(rules.medalPrimetime.time)] >>
     ELSE <<>>)
    \o
    (IF rules.streaming.present
     THEN << [network |-> rules.streaming.network,
              type |-> Or(rules.streaming.type, "streaming")] >>
     ELSE <<>>)

defaultBroadcasts(evt, rules) ==
    (IF evt.sport \in DOMAIN rules.sportNetworks /\ Truthy(rules.sportNetworks[evt.sport])
     THEN << [network |-> rules.sportNetworks[evt.sport], type |-> "live",
              time |-> cetToMountain(evt.time)] >>
     ELSE <<>>)
    \o
    (IF evt.isMedalEvent /\ rules.medalPrimetime.present
     THEN << [network |-> rules.medalPrimetime.network, type |-> "primetime",
              time |-> rules.medalPrimetime.time] >>
     ELSE <<>>)
    \o
    (IF rules.streaming.present
     THEN << [network |-> rules.streaming.network,
              type |-> Or(rules.streaming.type, "streaming")] >>
     ELSE <<>>)

applyBroadcastRules(events, rules) ==
    IF rules.kind = "null" THEN events
    ELSE [i \in 1..Len(events) |->
            IF events[i].id \in DOMAIN rules.eventOverrides
            THEN assign(events[i], rules.eventOverrides[events[i].id])
            ELSE assign(events[i], defaultBroadcasts(events[i], rules))]

(***************************************************************************)
(* Athlete-to-event matching                                               *)
(***************************************************************************)
\* sportAliases with the entry 'bobsled' left pointing at itself
sportAliases_BobsledKept ==
    [k \in {"alpine skiing", "biathlon", "bobsleigh", "bobsled",
            "cross-country skiing", "cross country skiing", "curling",
            "figure skating", "freestyle skiing", "freestyle aerials",
            "freestyle moguls", "freeski halfpipe",
            "freeski slopestyle & big air", "freeski slopestyle",
            "freeski big air", "ice hockey", "luge", "nordic combined",
            "short track speed skating", "short track", "skeleton",
            "ski jumping", "snowboard", "snowboarding", "snowboard cross",
            "snowboard halfpipe", "snowboard slopestyle", "snowboard big air",
            "snowboard parallel giant slalom", "speed skating"} |->
       CASE k = "cross country skiing" -> "cross-country skiing"
         [] k \in {"freestyle aerials", "freestyle moguls", "freeski halfpipe",
                   "freeski slopestyle & big air", "freeski slopestyle",
                   "freeski big air"} -> "freestyle skiing"
         [] k = "short track" -> "short track speed skating"
         [] k \in {"snowboarding", "snowboard cross", "snowboard halfpipe",
                   "snowboard slopestyle", "snowboard big air",
                   "snowboard parallel giant slalom"} -> "snowboard"
         [] OTHER -> k]

sportAliases ==
    [k \in {"alpine skiing", "biathlon", "bobsleigh", "bobsled",
            "cross-country skiing", "cross country skiing", "curling",
            "figure skating", "freestyle skiing", "freestyle aerials",
            "freestyle moguls", "freeski halfpipe",
            "freeski slopestyle & big air", "freeski slopestyle",
            "freeski big air", "ice hockey", "luge", "nordic combined",
            "short track speed skating", "short track", "skeleton",
            "ski jumping", "snowboard", "snowboarding", "snowboard cross",
            "snowboard halfpipe", "snowboard slopestyle", "snowboard big air",
            "snowboard parallel giant slalom", "speed skating"} |->
       CASE k = "bobsled" -> "bobsleigh"
         [] k = "cross country skiing" -> "cross-country skiing"
         [] k \in {"freestyle aerials", "freestyle moguls", "freeski halfpipe",
                   "freeski slopestyle & big air", "freeski slopestyle",
                   "freeski big air"} -> "freestyle skiing"
         [] k = "short track" -> "short track speed skating"
         [] k \in {"snowboarding", "snowboard cross", "snowboard halfpipe",
                   "snowboard slopestyle", "snowboard big air",
                   "snowboard parallel giant slalom"} -> "snowboard"
         [] OTHER -> k]

eventAliases ==
    [k \in {"four-man", "two-man", "pairs", "team event", "single skating",
            "big air", "halfpipe", "slopestyle", "parallel giant slalom",
            "snowboard cross", "skeleton", "individual"} |->
       CASE k = "four-man" -> <<"4-man">>
         [] k = "two-man" -> <<"2-man">>
         [] k = "pairs" -> <<"pair skating", "pairs">>
         [] k = "team event" -> <<"team event">>
         [] k = "single skating" -> <<"single skating">>
         [] k = "big air" -> <<"big air", " ba ">>
         [] k = "halfpipe" -> <<"halfpipe", " hp ">>
         [] k = "slopestyle" -> <<"slopestyle">>
         [] k = "parallel giant slalom" -> <<"pgs", "parallel giant slalom">>
         [] k = "snowboard cross" -> <<"snowboard cross", "sbx", "sbd cross">>
         [] k = "skeleton" -> <<"skeleton", "heat">>
         [] k = "individual" -> <<"individual", "ind.">>]

normalizeSport(name) ==
    IF ~Truthy(name) THEN ""
    ELSE LET lower == Trim(ToLowerCase(name))
         IN  IF lower \in DOMAIN sportAliases THEN sportAliases[lower] ELSE lower

\* eventMatches without the alias table
eventMatches_NoAlias(athleteEvent, evtText) == Has(evtText, ToLowerCase(athleteEvent))

eventMatches(athleteEvent, evtText) ==
    LET ev == ToLowerCase(athleteEvent)
    IN  \/ Has(evtText, ev)
        \/ /\ ev \in DOMAIN eventAliases
           /\ \E a \in 1..Len(eventAliases[ev]) : Has(evtText, eventAliases[ev][a])

\* sportMap[key]: the athletes of one canonical sport, in roster order
sportBucket(athletes, key) ==
    SelectSeq(athletes, LAMBDA ath : normalizeSport(ath.sport) = key)

\* genderFilter applied after the discipline narrowing has kept the
\* athletes without declared events: they pass whatever their gender
genderFilter_KeepUndeclared(evt, matched) ==
    IF Truthy(evt.eventGender) /\ Len(matched) > 0
    THEN SelectSeq(matched, LAMBDA ath : \/ ~Truthy(ath.gender)
                                         \/ ath.gender = evt.eventGender
                                         \/ Len(ath.events) = 0)
    ELSE matched

\* the gender filter of one event
genderFilter(evt, matched) ==
    IF Truthy(evt.eventGender) /\ Len(matched) > 0
    THEN SelectSeq(matched, LAMBDA ath : ~Truthy(ath.gender) \/ ath.gender = evt.eventGender)
    ELSE matched

\* ' ' + evtDisc + ' ' + evtEvent + ' '
eventText(evt) ==
    " " \o Trim(ToLowerCase(Or(evt.discipline, ""))) \o " "
        \o Trim(ToLowerCase(Or(evt.event, ""))) \o " "

\* the discipline filter of one event
disciplineFilter(evt, matched) ==
    IF Len(matched) > 0
    THEN SelectSeq(matched, LAMBDA ath :
            IF Len(ath.events) > 0
            THEN \E k \in 1..Len(ath.events) : eventMatches(ath.events[k], eventText(evt))
            ELSE TRUE)
    ELSE matched

\* the object the map callback of matchScheduleToAthletes returns
matchEvent(evt, athletes) ==
    [ id           |-> Or(evt.id, ""),
      date         |-> evt.date,
      time         |-> evt.time,
      sport        |-> evt.sport,
      discipline   |-> evt.discipline,
      event        |-> evt.event,
      venue        |-> evt.venue,
      isMedalEvent |-> evt.isMedalEvent,
      status       |-> Or(evt.status, "upcoming"),
      eventGender  |-> Or(evt.eventGender, ""),
      broadcast    |-> evt.broadcast,
      athletes     |-> disciplineFilter(evt,
                          genderFilter(evt, sportBucket(athletes, normalizeSport(evt.sport)))) ]

\* hasAthletes keeping every event
hasAthletes_Always(evt) == Len(evt.athletes) >= 0

hasAthletes(evt) == Len(evt.athletes) > 0

\* matchScheduleToAthletes without the final filter
matchScheduleToAthletes_KeepAll(schedule, athletes) ==
    [i \in 1..Len(schedule) |-> matchEvent(schedule[i], athletes)]

matchScheduleToAthletes(schedule, athletes) ==
    SelectSeq([i \in 1..Len(schedule) |-> matchEvent(schedule[i], athletes)], hasAthletes)

(***************************************************************************)
(* Inputs of the model: raw source records, payload shapes, rosters and    *)
(* rule sets, drawn from the shapes the source API, the roster provider    *)
(* and broadcast.json deliver.                                             *)
(***************************************************************************)
RawRecord(id, time, sport, discipline, venue, medal) ==
    [ id |-> id, date |-> "2026-02-07", time |-> time, sport |-> sport,
      discipline |-> discipline, venue |-> venue, is_medal_event |-> medal,
      status |-> Null, event |-> Null, eventName |-> Null, gender |-> Null ]

\* an Alpine Skiing men's downhill medal event, venue embedded in the text
RawDownhill ==
    RawRecord("e1", "11:30", "alpine_skiing",
              "Men's DownhillMedal EventStelvio Ski Centre", NoVenue, TRUE)

\* an unknown-sport record at the sliding centre, structured venue
RawDoubles ==
    RawRecord("e2", "17:00", "unknown", "Doubles",
              VenueObject("Cortina Sliding Centre", "Cortina d'Ampezzo"), TRUE)

\* a qualifier: no medals
RawQualifier ==
    RawRecord("e3", "10:00", "alpine_skiing", "Women's Slalom Qualification",
              NoVenue, FALSE)

\* a medal record no classification rule recognises
RawUnclassifiable ==
    RawRecord("e4", "20:00", Null, "Closing Gala", NoVenue, TRUE)

\* a snowboard event the source labels freestyle_skiing
RawSnowboard ==
    RawRecord("e5", "02:00", "freestyle_skiing", "Women's SBD Cross Finals",
              VenueString("Livigno Snow Park"), TRUE)

\* a slalom whose sport code is not in lower case
RawSlalom ==
    RawRecord("e6", "09:15", "Alpine_Skiing", "Men's Slalom", NoVenue, TRUE)

RawUniverse ==
    {RawDownhill, RawDoubles, RawQualifier, RawUnclassifiable, RawSnowboard, RawSlalom}

\* the longest raw event list drawn freely from RawUniverse
MaxEvents == 2

RECURSIVE SeqsUpTo(_, _)
SeqsUpTo(S, n) ==
    IF n = 0 THEN {<<>>}
    ELSE LET shorter == SeqsUpTo(S, n - 1)
         IN  shorter \cup {Append(q, x) : q \in {r \in shorter : Len(r) = n - 1}, x \in S}

PayloadKinds == {"array", "events", "schedule", "neither"}

\* the end-to-end scenario of the specification: a men's downhill medal
\* event, an unknown-sport sliding-centre doubles record, a non-medal
\* qualifier
ScenarioEvents == <<RawDownhill, RawDoubles, RawQualifier>>

RawLists == SeqsUpTo(RawUniverse, MaxEvents) \cup {ScenarioEvents}

Payloads == {[kind |-> k, list |-> l] : k \in PayloadKinds, l \in RawLists}

Member(name, sport, gender, events) ==
    [name |-> name, sport |-> sport, gender |-> gender, events |-> events]

MemberDownhill == Member("A. Racer", "Alpine Skiing", "M", <<"Downhill">>)

MemberSlalomF == Member("B. Gates", "alpine skiing ", "F", <<"Slalom", "Super-G">>)

MemberBoarder == Member("C. Rider", "Snowboard Cross", "", <<>>)

Rosters ==
    { <<>>, <<MemberDownhill>>, <<MemberSlalomF, MemberDownhill>>,
      <<MemberBoarder, MemberSlalomF>> }

\* the documented broadcast.json
DefaultRules ==
    [kind |-> "rules",
     streaming |-> [present |-> TRUE, network |-> "Peacock", type |-> "streaming", time |-> ""],
     sportNetworks |-> [sp \in {"Alpine Skiing", "Snowboard"} |->
                          IF sp = "Alpine Skiing" THEN "NBC / USA Network" ELSE "USA Network"],
     medalPrimetime |-> [present |-> TRUE, network |-> "NBC", type |-> "", time |-> "19:00"],
     eventOverrides |-> <<>>]

\* a rule set with a per-event override
OverrideRules ==
    [DefaultRules EXCEPT !.eventOverrides =
        [id \in {"e1"} |-> << [network |-> "CNBC", type |-> "live", time |-> "03:30"] >>]]

RuleSets == {DefaultRules, OverrideRules}

\* rosters for the matcher: declared events that match directly, through an
\* alias or in another case; no declared events; no declared gender
MatchRosters ==
    LET speed == Member("D. Speed", "Alpine Skiing", "M", <<"Downhill", "Super-G">>)
        allround == Member("E. Allround", "Alpine Skiing", "M", <<>>)
        cross == Member("F. Cross", "Snowboard", "F", <<"Snowboard Cross">>)
        pipe == Member("G. Pipe", "Snowboarding", "M", <<>>)
        park == Member("H. Park", "Snowboard", "", <<"Halfpipe">>)
        tech == Member("I. Tech", "alpine skiing", "", <<"SLALOM">>)
        free == Member("J. Free", "Snowboard", "", <<>>)
    IN  { <<speed, allround>>, <<cross, pipe, park, free>>, <<tech, speed>>,
          <<speed, allround, cross, pipe, park, tech, free>> }

\* event lists for the matcher
MatchPayloads ==
    { [kind |-> "array", list |-> <<RawDownhill, RawSlalom>>],
      [kind |-> "array", list |-> <<RawSnowboard>>],
      [kind |-> "array", list |-> <<RawDownhill, RawSnowboard, RawSlalom>>] }

\* rosters whose sport labels are spelling variants and roster labels of the
\* alias table, and the events they are matched against
AliasRosters ==
    LET pilot == Member("K. Pilot", "Bobsled", "M", <<>>)
        brake == Member("L. Brake", " BOBSLEIGH ", "M", <<>>)
        flip == Member("M. Flip", "Freestyle Aerials", "M", <<>>)
        bump == Member("N. Bump", "Freestyle Moguls", "", <<>>)
        sled == Member("O. Sled", "Luge", "F", <<>>)
    IN  { <<pilot, brake, flip, bump, sled>>, <<pilot, flip>>, <<brake, bump, sled>> }

AliasPayload ==
    [kind |-> "array",
     list |-> << RawRecord("a1", "10:00", "bobsleigh", "Two-Man Heat 4",
                           VenueObject("Cortina Sliding Centre", "Cortina d'Ampezzo"), TRUE),
                 RawRecord("a2", "14:00", "freestyle_skiing", "Men's Aerials Final",
                           NoVenue, TRUE),
                 RawRecord("a3", "18:00", "luge", "Men's Singles Run 4",
                           VenueObject("Cortina Sliding Centre", "Cortina d'Ampezzo"), TRUE) >>]

\* rule sets that lack members of the documented broadcast.json: no
\* streaming rule, no primetime rule, a streaming rule without a type, an
\* empty object, and an override that lists nothing for an event
SparseRuleSets ==
    { [DefaultRules EXCEPT !.streaming = AbsentMember],
      [DefaultRules EXCEPT !.medalPrimetime = AbsentMember],
      [DefaultRules EXCEPT !.streaming.type = ""],
      [NoRules EXCEPT !.kind = "rules"],
      [DefaultRules EXCEPT !.eventOverrides = [id \in {"e2"} |-> <<>>]] }

\* unknown-sport medal records at the sliding centre, the venue delivered as
\* a plain string or as an object
SlidingRecords ==
    { RawRecord("s1", "18:00", "unknown", "Women's Singles Run 1",
                VenueString("Cortina Sliding Centre"), TRUE),
      RawRecord("s2", "18:30", "unknown", "Men's Singles Run 3",
                VenueObject("Cortina Sliding Centre", "Cortina d'Ampezzo"), TRUE),
      RawRecord("s3", "09:30", "unknown", "Women's Heat 4",
                VenueObject("Cortina Sliding Centre", "Cortina d'Ampezzo"), TRUE),
      RawRecord("s4", "09:00", "unknown", "Men's Heat 2",
                VenueString("Cortina Sliding Centre"), TRUE),
      RawRecord("s5", "19:30", "unknown", "Team Relay Heat 1",
                VenueObject("Cortina Sliding Centre", "Cortina d'Ampezzo"), TRUE) }

\* medal records of a known sport whose text fields carry gender words:
\* discipline, event, eventName, gender
GenderText(id, discipline, event, eventName, gender) ==
    [RawRecord(id, "12:00", "biathlon", discipline, NoVenue, TRUE)
        EXCEPT !.event = event, !.eventName = eventName, !.gender = gender]

GenderRecords ==
    { GenderText("g1", "Mixed Relay 4x6km (Women's + Men's)", Null, Null, Null),
      GenderText("g2", "Women's 15km Individual", Null, Null, Null),
      GenderText("g3", "Ladies 7.5km Sprint", Null, Null, Null),
      GenderText("g4", "Men's 20km Individual", Null, Null, Null),
      GenderText("g5", "12.5km Pursuit Men", Null, Null, Null),
      GenderText("g6", "Tournament Final", Null, Null, Null),
      GenderText("g7", "10km Sprint", Null, Null, "Women"),
      GenderText("g8", "4x7.5km Relay", "MEN RELAY", Null, Null),
      GenderText("g9", "Women's Relay", Null, "Single Mixed Relay", Null),
      GenderText("g10", "15km Mass Start", Null, Null, "Men" \o RightQuote \o "s"),
      GenderText("g11", "Relay", "Gentlemen's Race", Null, Null) }

\* a two-digit clock field
TwoDigits(n) == (IF n < 10 THEN "0" ELSE "") \o NatToString(n)

\* the minute fields of the clock records
ClockMinutes == {"00", "45"}

\* medal records of a sport with a live network, one per hour of the day
\* and minute field
ClockRecords ==
    { RawRecord("t" \o TwoDigits(h) \o mm, TwoDigits(h) \o ":" \o mm, "alpine_skiing",
                "Men's Super-G", NoVenue, TRUE) : h \in 0..23, mm \in ClockMinutes }

\* records whose discipline text carries venue names, medal markers,
\* snowboard markers and the keywords of the classification rules
DisciplineRecords ==
    LET rink == VenueObject("Milano Ice Skating Arena", "Milano")
        sharp == VenueObject("PalaSharp", "Milano")
        track == VenueObject("Cortina Sliding Centre", "Cortina d'Ampezzo")
    IN  { RawRecord("d1", "11:30", "alpine_skiing", "Men's Super-G Stelvio", NoVenue, TRUE),
          RawRecord("d2", "19:00", "figure_skating",
                    "Pairs Free Skating Medal PalaSharpEvent", NoVenue, TRUE),
          RawRecord("d3", "12:00", "unknown",
                    "Men's Snowboard SlopestyleMedal EventLivigno Snow Park", NoVenue, TRUE),
          RawRecord("d4", "13:00", "alpine_skiing", "Men's PGS Final", NoVenue, TRUE),
          RawRecord("d5", "14:00", "unknown",
                    "Men's AerialsMedal EventLivigno Aerials & Moguls Park", NoVenue, TRUE),
          RawRecord("d6", "10:30", "unknown",
                    "Women's Ski CrossMedal EventLivigno Snow Park", NoVenue, TRUE),
          RawRecord("d7", "12:30", "unknown",
                    "Women's SlopestyleMedal EventLivigno Snow Park", NoVenue, TRUE),
          RawRecord("d8", "10:00", "unknown",
                    "Women's Team CombinedMedal EventStelvio Ski Centre", NoVenue, TRUE),
          RawRecord("d9", "20:10", "unknown", "Men's Gold Medal Game", NoVenue, TRUE),
          RawRecord("d10", "10:15", "unknown", "Team Combined Semi-Final", NoVenue, TRUE),
          RawRecord("d11", "11:00", "unknown", "Men's Dual Moguls Combined", NoVenue, TRUE),
          RawRecord("d12", "19:30", "unknown", "Pairs Free Skating", rink, TRUE),
          RawRecord("d13", "20:00", "unknown", "Women's 500m Semi-Final", rink, TRUE),
          RawRecord("d14", "19:45", "unknown", "Ice Dance Free Dance", sharp, TRUE),
          RawRecord("d15", "18:15", "unknown", "Mixed Team Combined", track, TRUE),
          RawRecord("d16", "18:45", "unknown", "Pairs Aerials Heat", track, TRUE),
          RawRecord("d17", "15:00", "freestyle_skiing", "Women's Moguls Final",
                    VenueString("Livigno Aerials & Moguls Park"), TRUE),
          RawRecord("d18", "15:30", "unknown", "Men's SBX Ski Cross Finals", NoVenue, TRUE),
          RawRecord("d19", "16:00", "unknown", "Women's 1500m", NoVenue, TRUE) }

\* records normalized one at a time
ProbeRecords == SlidingRecords \cup GenderRecords \cup ClockRecords \cup DisciplineRecords

ProbePayloads == {[kind |-> "array", list |-> <<r>>] : r \in ProbeRecords}

(***************************************************************************)
(* The clock of the model, Date.now(), in milliseconds from an origin one  *)
(* day before the competition window opens (TLC's integers are 32 bits     *)
(* wide, which the epoch in milliseconds exceeds).                         *)
(***************************************************************************)
MinuteMs == 60 * 1000

HourMs == 60 * MinuteMs

DayMs == 24 * HourMs

\* new Date('2026-02-06T00:00:00')
SeasonStart == 86400000

\* new Date('2026-02-23T00:00:00'): 17 days later
SeasonEnd == SeasonStart + 17 * DayMs

\* now >= start && now <= end
InSeason(t) == t >= SeasonStart /\ t <= SeasonEnd

\* getCacheTTL() at clock value t
getCacheTTL(t) == IF InSeason(t) THEN 30 * 60 * 1000 ELSE 24 * 60 * 60 * 1000

\* the throttle window canRefreshAPI() computes at clock value t
throttleWindow(t) == IF InSeason(t) THEN 60 * 60 * 1000 ELSE 24 * 60 * 60 * 1000

\* the delay of the setTimeout in backgroundRefresh
RefreshDelay == 2000

(***************************************************************************)
(* localStorage items.  An item is absent ("none"), holds text JSON.parse  *)
(* rejects ("garbage"), or holds {timestamp, data} ("entry").              *)
(***************************************************************************)
NoItem == [kind |-> "none", timestamp |-> 0, data |-> <<>>]

GarbageItem == [kind |-> "garbage", timestamp |-> 0, data |-> <<>>]

\* setCache(key, data) at clock value t
setCache(t, data) == [kind |-> "entry", timestamp |-> t, data |-> data]

\* canRefreshAPI reading a key nothing is stored under: no attempt is found
canRefreshAPI_NoRecord(flag, last, t) == TRUE

\* canRefreshAPI with the comparison >= in place of >
canRefreshAPI_AtLeast(flag, last, t) ==
    IF flag THEN TRUE
    ELSE IF ~Truthy(last) THEN TRUE
    ELSE (t - ParseInt(last)) >= throttleWindow(t)

\* canRefreshAPI(): flag is forceRefresh(), last the stored throttle text
canRefreshAPI(flag, last, t) ==
    IF flag THEN TRUE
    ELSE IF ~Truthy(last) THEN TRUE
    ELSE (t - ParseInt(last)) > throttleWindow(t)

\* markRefreshAttempt storing seconds where canRefreshAPI reads milliseconds
markRefreshAttempt_Seconds(t) == IntToString(t \div 1000)

\* markRefreshAttempt(): the text stored under the throttle key
markRefreshAttempt(t) == IntToString(t)

\* getCache(key) !== null: the item is served
getCacheHit(flag, item, t) ==
    /\ ~flag
    /\ item.kind = "entry"
    /\ ~(t - item.timestamp > getCacheTTL(t))

\* getCacheWithAge with the TTL taken at the time the entry was written
getCacheWithAge_WriteTimeTTL(item, t) ==
    IF item.kind # "entry" THEN "none"
    ELSE IF (t - item.timestamp) > getCacheTTL(item.timestamp) THEN "stale"
    ELSE "fresh"

\* getCacheWithAge without the try/catch fallback: a value that does not
\* parse counts as an entry of unknown age
getCacheWithAge_GarbageStale(item, t) ==
    IF item.kind = "none" THEN "none"
    ELSE IF item.kind = "garbage" \/ (t - item.timestamp) > getCacheTTL(t) THEN "stale"
    ELSE "fresh"

\* getCacheWithAge(key): "none" for null, else "fresh" or "stale"
getCacheWithAge(item, t) ==
    IF item.kind # "entry" THEN "none"
    ELSE IF (t - item.timestamp) > getCacheTTL(t) THEN "stale"
    ELSE "fresh"

(***************************************************************************)
(* What the network delivers to the orchestrator                           *)
(***************************************************************************)
\* responses of the live event API: one that normalizes to an event and
\* one that normalizes to nothing
LivePayloads ==
    { [kind |-> "events", list |-> <<RawDownhill, RawQualifier>>],
      [kind |-> "array", list |-> <<RawQualifier>>] }

\* the static file data/schedule-cache.json
FallbackPayload == [kind |-> "array", list |-> <<RawSlalom>>]

\* what fetchBroadcastRules() resolves to: the rules, or null on failure
BroadcastResponses == {DefaultRules, NoRules}

\* normalizeAPIData(payload) of each response, evaluated once
liveEvents == [payload \in LivePayloads |-> normalizeAPIData(payload)]

fallbackEvents == normalizeAPIData(FallbackPayload)

(***************************************************************************)
(* Bounds of the orchestrator model                                        *)
(***************************************************************************)
\* fetchSchedule calls in one behaviour
MaxCalls == 2

\* clock advances in one behaviour
MaxTicks == 2

\* the steps by which the clock advances
TickSteps == {HourMs, DayMs}

\* the clock value a behaviour starts at: an hour before the window opens,
\* so that one behaviour reads the clock off season, on the boundary and in
\* season
StartTimes == {SeasonStart - HourMs}

(***************************************************************************)
(* State                                                                   *)
(***************************************************************************)
VARIABLES
    pstage,      \* pipeline: "raw", "canonical", "enriched", "matched", "renormalized"
    rawInput,    \* pipeline: the payload given to normalizeAPIData
    roster,      \* pipeline: the roster given to matchScheduleToAthletes
    ruleSet,     \* pipeline: the rule set given to applyBroadcastRules
    canonical,   \* pipeline: the result of normalizeAPIData
    enriched,    \* pipeline: the result of applyBroadcastRules
    matched,     \* pipeline: the result of matchScheduleToAthletes
    renormalized,\* pipeline: the result of normalizeAPIData on its own output
    now,         \* Date.now()
    ticks,       \* clock advances so far
    apiKey,      \* CONFIG.RAPIDAPI_KEY is configured (non-empty)
    apiUp,       \* the live event API answers 2xx with a parseable body
    localUp,     \* the static fallback file is served
    schedItem,   \* localStorage[SCHEDULE_CACHE_KEY]
    bcItem,      \* localStorage[BROADCAST_CACHE_KEY]
    throttleItem,\* localStorage[REFRESH_THROTTLE_KEY]: text, or Null
    calls,       \* the fetchSchedule calls made, in order, with their promises
    bg,          \* background refreshes scheduled and not yet finished
    apiLog,      \* history: the requests sent to the live event API, by call
    cacheRead    \* cache probe: the last read of the schedule cache entry

pipeVars == <<pstage, rawInput, roster, ruleSet, canonical, enriched, matched,
              renormalized>>

orchVars == <<now, ticks, apiKey, apiUp, localUp, schedItem, bcItem, throttleItem,
              calls, bg, apiLog>>

vars == <<pipeVars, orchVars, cacheRead>>

\* no read of the cache probe yet
NoRead == [kind |-> "none", at |-> 0, flag |-> FALSE, item |-> NoItem,
           hit |-> FALSE, age |-> "none"]

\* the orchestrator at rest, for the pipeline specification
OrchIdle ==
    /\ now = SeasonStart
    /\ ticks = 0
    /\ apiKey = TRUE
    /\ apiUp = TRUE
    /\ localUp = TRUE
    /\ schedItem = NoItem
    /\ bcItem = NoItem
    /\ throttleItem = Null
    /\ calls = <<>>
    /\ bg = {}
    /\ apiLog = {}
    /\ cacheRead = NoRead

\* the pipeline at rest, for the orchestrator specification
PipeIdle ==
    /\ pstage = "idle"
    /\ rawInput = [kind |-> "neither", list |-> <<>>]
    /\ roster = <<>>
    /\ ruleSet = NoRules
    /\ canonical = <<>>
    /\ enriched = <<>>
    /\ matched = <<>>
    /\ renormalized = <<>>

(***************************************************************************)
(* The pure pipeline: normalize -> broadcast rules -> match                *)
(***************************************************************************)
PipeInit ==
    /\ OrchIdle
    /\ pstage = "raw"
    /\ \/ /\ rawInput \in Payloads
          /\ roster \in Rosters
          /\ ruleSet \in RuleSets \cup {NoRules}
       \/ /\ rawInput \in ProbePayloads
          /\ roster = <<MemberDownhill>>
          /\ ruleSet = DefaultRules
       \/ /\ rawInput = [kind |-> "events", list |-> ScenarioEvents]
          /\ roster = <<MemberDownhill>>
          /\ ruleSet \in SparseRuleSets
       \/ /\ rawInput \in MatchPayloads
          /\ roster \in MatchRosters
          /\ ruleSet = DefaultRules
       \/ /\ rawInput = AliasPayload
          /\ roster \in AliasRosters
          /\ ruleSet = DefaultRules
    /\ canonical = <<>>
    /\ enriched = <<>>
    /\ matched = <<>>
    /\ renormalized = <<>>

Normalize ==
    /\ pstage = "raw"
    /\ canonical' = normalizeAPIData(rawInput)
    /\ pstage' = "canonical"
    /\ UNCHANGED <<rawInput, roster, ruleSet, enriched, matched, renormalized, orchVars,
                   cacheRead>>

Enrich ==
    /\ pstage = "canonical"
    /\ enriched' = applyBroadcastRules(canonical, ruleSet)
    /\ pstage' = "enriched"
    /\ UNCHANGED <<rawInput, roster, ruleSet, canonical, matched, renormalized, orchVars,
                   cacheRead>>

Match ==
    /\ pstage = "enriched"
    /\ matched' = matchScheduleToAthletes(enriched, roster)
    /\ pstage' = "matched"
    /\ UNCHANGED <<rawInput, roster, ruleSet, canonical, enriched, renormalized, orchVars,
                   cacheRead>>

\* a canonical event read as a source record: normalizeAPIData reads the
\* members id, date, time, sport, discipline, event, eventName, gender,
\* venue, is_medal_event and status; a canonical event has no eventName,
\* gender or is_medal_event member (undefined), and its venue is a string
readAsRaw(ev) ==
    [ id |-> ev.id, date |-> ev.date, time |-> ev.time, sport |-> ev.sport,
      discipline |-> ev.discipline,
      venue |-> IF ev.venue = "" THEN NoVenue ELSE VenueString(ev.venue),
      is_medal_event |-> FALSE,
      status |-> ev.status, event |-> ev.event, eventName |-> Null, gender |-> Null ]

\* normalizeAPIData applied to the array it returned
Renormalize ==
    /\ pstage = "canonical"
    /\ renormalized' =
          normalizeAPIData([kind |-> "array",
                            list |-> [i \in 1..Len(canonical) |-> readAsRaw(canonical[i])]])
    /\ pstage' = "renormalized"
    /\ UNCHANGED <<rawInput, roster, ruleSet, canonical, enriched, matched, orchVars,
                   cacheRead>>

PipeNext == Normalize \/ Enrich \/ Match \/ Renormalize

SpecPipeline == PipeInit /\ [][PipeNext]_vars

(***************************************************************************)
(* The Schedule Orchestrator                                               *)
(*                                                                         *)
(* A call record holds the two promises fetchSchedule combines: the        *)
(* schedule side (sched: "api" while the call awaits the live API, "local" *)
(* while it awaits the static file, "ready" with events, or "failed") and  *)
(* the broadcast side (bc: "pending" or "ready" with rules).  The fields   *)
(* at, itemBefore, throttleBefore, throttleAfter and pendingBefore record  *)
(* the clock, the storage and whether a background refresh was under way   *)
(* around the synchronous part of the call.                                *)
(***************************************************************************)
\* settle reading the cache entry again when the promise resolves, instead
\* of the data captured by the call
settle_LateRead(c) ==
    IF c.status = "pending" /\ c.sched = "ready" /\ c.bc = "ready"
    THEN [c EXCEPT !.status = "resolved",
                   !.result = applyBroadcastRules(
                                 IF c.branch \in {"fresh", "stale"} /\ schedItem.kind = "entry"
                                 THEN schedItem.data ELSE c.events, c.rules)]
    ELSE c

\* the returned promise settles as soon as both sides have: Promise.all
\* resolves with applyBroadcastRules(events, rules)
settle(c) ==
    IF c.status = "pending" /\ c.sched = "ready" /\ c.bc = "ready"
    THEN [c EXCEPT !.status = "resolved",
                   !.result = applyBroadcastRules(c.events, c.rules)]
    ELSE c

\* branchOf without the bypass test
branchOf_NoBypass(flag, item, t) ==
    IF getCacheWithAge(item, t) = "fresh" THEN "fresh"
    ELSE IF getCacheWithAge(item, t) = "stale" THEN "stale"
    ELSE "nocache"

\* branchOf with the fresh test lost: every parsed entry counts as stale
branchOf_FreshAsStale(flag, item, t) ==
    IF flag /\ apiKey THEN "bypass"
    ELSE IF getCacheWithAge(item, t) \in {"fresh", "stale"} THEN "stale"
    ELSE "nocache"

\* the branch fetchSchedule takes
branchOf(flag, item, t) ==
    IF flag /\ apiKey THEN "bypass"
    ELSE IF getCacheWithAge(item, t) = "fresh" THEN "fresh"
    ELSE IF getCacheWithAge(item, t) = "stale" THEN "stale"
    ELSE "nocache"

\* refreshScheduled with backgroundRefresh called ahead of the fresh return
refreshScheduled_AnyBranch(flag, branch, last, t) ==
    /\ branch \in {"fresh", "stale", "nocache"}
    /\ apiKey
    /\ canRefreshAPI(flag, last, t)

\* refreshScheduled without the throttle test of backgroundRefresh
refreshScheduled_NoThrottle(flag, branch, last, t) ==
    /\ branch \in {"stale", "nocache"}
    /\ apiKey

\* backgroundRefresh(apiKey) is called in the stale and no-cache branches
\* when an API key is configured; it schedules a refresh unless throttled
refreshScheduled(flag, branch, last, t) ==
    /\ branch \in {"stale", "nocache"}
    /\ apiKey
    /\ canRefreshAPI(flag, last, t)

\* the synchronous part of fetchSchedule(), and the settling of the promise
\* when nothing is awaited.  flag is forceRefresh() of the page making the
\* call.  The calls of a behaviour follow one another, as the page loads
\* that make them do: a call starts once the promises of the earlier calls
\* have settled, while their background refreshes may still be under way.
FetchSchedule(flag) ==
    /\ pstage = "idle"
    /\ Len(calls) < MaxCalls
    /\ \A i \in 1..Len(calls) : calls[i].status # "pending"
    /\ LET id == Len(calls) + 1
           branch == branchOf(flag, schedItem, now)
           bcHit == getCacheHit(flag, bcItem, now)
           refresh == refreshScheduled(flag, branch, throttleItem, now)
           throttleNext == IF refresh THEN markRefreshAttempt(now) ELSE throttleItem
           c == [ flag |-> flag, at |-> now, branch |-> branch,
                  sched |-> CASE branch = "bypass" -> "api"
                              [] branch = "nocache" -> "local"
                              [] OTHER -> "ready",
                  events |-> IF branch \in {"fresh", "stale"} THEN schedItem.data ELSE <<>>,
                  bc |-> IF bcHit THEN "ready" ELSE "pending",
                  rules |-> IF bcHit THEN bcItem.data ELSE NoRules,
                  status |-> "pending", result |-> <<>>,
                  bgScheduled |-> refresh,
                  itemBefore |-> schedItem,
                  throttleBefore |-> throttleItem,
                  throttleAfter |-> throttleNext,
                  pendingBefore |-> bg # {} ]
       IN  /\ calls' = Append(calls, settle(c))
           /\ throttleItem' = throttleNext
           /\ bg' = IF refresh
                    THEN bg \cup {[by |-> id, due |-> now + RefreshDelay, stage |-> "timer"]}
                    ELSE bg
           /\ apiLog' = IF branch = "bypass"
                        THEN apiLog \cup {[by |-> id, kind |-> "bypass"]}
                        ELSE apiLog
    /\ UNCHANGED <<pipeVars, cacheRead, now, ticks, apiKey, apiUp, localUp, schedItem, bcItem>>

\* fetchBroadcastRules() answers a call: the rules are cached when there are any
BroadcastResponse(i, rules) ==
    /\ i \in 1..Len(calls)
    /\ calls[i].bc = "pending"
    /\ bcItem' = IF rules.kind # "null" THEN setCache(now, rules) ELSE bcItem
    /\ calls' = [calls EXCEPT ![i] = settle([calls[i] EXCEPT !.bc = "ready", !.rules = rules])]
    /\ UNCHANGED <<pipeVars, cacheRead, now, ticks, apiKey, apiUp, localUp, schedItem, throttleItem,
                   bg, apiLog>>

\* onApiFailure without the fallback: the failure is passed on
onApiFailure_Reject(c) == [c EXCEPT !.sched = "failed", !.status = "rejected"]

\* the catch handler of fetchFromAPI: the static file is fetched instead
onApiFailure(c) == [c EXCEPT !.sched = "local"]

\* fetchFromAPI() of a bypass call gets its answer: the normalized events
\* are cached and handed on, or the static file is fetched instead
ApiResponse(i, payload) ==
    /\ i \in 1..Len(calls)
    /\ calls[i].sched = "api"
    /\ IF apiUp
       THEN LET events == liveEvents[payload]
            IN  /\ schedItem' = setCache(now, events)
                /\ calls' = [calls EXCEPT ![i] =
                               settle([calls[i] EXCEPT !.sched = "ready", !.events = events])]
       ELSE /\ schedItem' = schedItem
            /\ calls' = [calls EXCEPT ![i] = onApiFailure(calls[i])]
    /\ UNCHANGED <<pipeVars, cacheRead, now, ticks, apiKey, apiUp, localUp, bcItem, throttleItem,
                   bg, apiLog>>

\* fetchLocalSchedule() gets its answer (no-cache branch, or the fallback of
\* fetchFromAPI): the events are cached and handed on, or the call rejects
LocalResponse(i) ==
    /\ i \in 1..Len(calls)
    /\ calls[i].sched = "local"
    /\ IF localUp
       THEN LET events == fallbackEvents
            IN  /\ schedItem' = setCache(now, events)
                /\ calls' = [calls EXCEPT ![i] =
                               settle([calls[i] EXCEPT !.sched = "ready", !.events = events])]
       ELSE /\ schedItem' = schedItem
            /\ calls' = [calls EXCEPT ![i].sched = "failed", ![i].status = "rejected"]
    /\ UNCHANGED <<pipeVars, cacheRead, now, ticks, apiKey, apiUp, localUp, bcItem, throttleItem,
                   bg, apiLog>>

\* the setTimeout callback of backgroundRefresh runs, no earlier than it is
\* due (the clock has reached task.due by then): the request is sent
RefreshTimer(task) ==
    /\ task \in bg
    /\ task.stage = "timer"
    /\ now' = IF now < task.due THEN task.due ELSE now
    /\ bg' = (bg \ {task}) \cup {[task EXCEPT !.stage = "fetch"]}
    /\ apiLog' = apiLog \cup {[by |-> task.by, kind |-> "background"]}
    /\ UNCHANGED <<pipeVars, cacheRead, ticks, apiKey, apiUp, localUp, schedItem, bcItem,
                   throttleItem, calls>>

\* refreshedItem without the events.length test
refreshedItem_WritesEmpty(item, ok, payload, t) ==
    IF ok THEN setCache(t, liveEvents[payload]) ELSE item

\* the cache entry after a background refresh got its answer
refreshedItem(item, ok, payload, t) ==
    IF ok /\ Len(liveEvents[payload]) > 0
    THEN setCache(t, liveEvents[payload])
    ELSE item

\* the request of a background refresh gets its answer
RefreshResponse(task, payload) ==
    /\ task \in bg
    /\ task.stage = "fetch"
    /\ schedItem' = refreshedItem(schedItem, apiUp, payload, now)
    /\ bg' = bg \ {task}
    /\ UNCHANGED <<pipeVars, cacheRead, now, ticks, apiKey, apiUp, localUp, bcItem, throttleItem,
                   calls, apiLog>>

\* time passes
Tick(d) ==
    /\ pstage = "idle"
    /\ ticks < MaxTicks
    /\ now' = now + d
    /\ ticks' = ticks + 1
    /\ UNCHANGED <<pipeVars, cacheRead, apiKey, apiUp, localUp, schedItem, bcItem, throttleItem,
                   calls, bg, apiLog>>

Init ==
    /\ PipeIdle
    /\ now \in StartTimes
    /\ ticks = 0
    /\ apiKey \in BOOLEAN
    /\ apiUp \in BOOLEAN
    /\ localUp \in BOOLEAN
    /\ schedItem \in {NoItem, GarbageItem}
    /\ bcItem = NoItem
    /\ throttleItem = Null
    /\ calls = <<>>
    /\ bg = {}
    /\ apiLog = {}
    /\ cacheRead = NoRead

Next ==
    \/ \E flag \in BOOLEAN : FetchSchedule(flag)
    \/ \E i \in 1..MaxCalls, rules \in BroadcastResponses : BroadcastResponse(i, rules)
    \/ \E i \in 1..MaxCalls, payload \in LivePayloads : ApiResponse(i, payload)
    \/ \E i \in 1..MaxCalls : LocalResponse(i)
    \/ \E task \in bg : RefreshTimer(task)
    \/ \E task \in bg, payload \in LivePayloads : RefreshResponse(task, payload)
    \/ \E d \in TickSteps : Tick(d)

Spec == Init /\ [][Next]_vars

\* a schedule cache entry an earlier session left behind, older than the
\* off-season TTL when the page loads
StaleItem ==
    [kind |-> "entry", timestamp |-> SeasonStart - HourMs - DayMs - 1, data |-> fallbackEvents]

\* the page is loaded over the entry of an earlier session
RefreshInit ==
    /\ PipeIdle
    /\ now \in StartTimes
    /\ ticks = 0
    /\ apiKey \in BOOLEAN
    /\ apiUp \in BOOLEAN
    /\ localUp \in BOOLEAN
    /\ schedItem = StaleItem
    /\ bcItem = NoItem
    /\ throttleItem = Null
    /\ calls = <<>>
    /\ bg = {}
    /\ apiLog = {}
    /\ cacheRead = NoRead

SpecRefresh == RefreshInit /\ [][Next]_vars

(***************************************************************************)
(* Properties of the pipeline (checked under SpecPipeline)                 *)
(***************************************************************************)
\* the end-to-end scenario: the three raw events, in a payload of any shape
\* that carries a list, and the one roster member
IsScenario ==
    /\ rawInput.kind # "neither"
    /\ rawInput.list = ScenarioEvents
    /\ roster = <<MemberDownhill>>

\* C9: for the three raw events (an Alpine Skiing men's downhill medal
\* event, an unknown-sport "doubles" record at the sliding centre, a
\* non-medal qualifier) and the one roster member (Alpine Skiing, M,
\* events = ["Downhill"]), normalization yields exactly two canonical
\* events (the downhill and the doubles record, classified by its venue) and
\* matching yields exactly one matched event, the downhill, carrying that
\* member.
C9_EndToEndScenario ==
    IsScenario =>
        /\ pstage # "raw" =>
              /\ Len(canonical) = 2
              /\ canonical[1].id = "e1" /\ canonical[1].sport = "Alpine Skiing"
              /\ canonical[2].id = "e2" /\ canonical[2].sport = "Luge"
        /\ pstage = "matched" =>
              /\ Len(matched) = 1
              /\ matched[1].id = "e1"
              /\ matched[1].event = "Men's Downhill"
              /\ matched[1].athletes = <<MemberDownhill>>

\* the scenario has run through normalization, the documented broadcast
\* rules and matching
C9_Witness ==
    /\ IsScenario
    /\ ruleSet = DefaultRules
    /\ pstage = "matched"
    /\ Len(matched) = 1

\* the filter as the specification states it, on the raw record: the sport
\* resolves to something other than the sentinel and the medal flag is true
StatedKeep(e) ==
    LET classified == classifyUnknownEvent(e)
        resolved == IF e.sport = Null \/ e.sport = "" \/ e.sport = "unknown"
                    THEN IF classified = "" THEN "unknown" ELSE classified
                    ELSE displaySportName(e.sport)
    IN  resolved # "unknown" /\ e.is_medal_event = TRUE

StatedKept == SelectSeq(payloadEvents(rawInput), StatedKeep)

\* C10: the output of normalization is exactly the input records, in input
\* order, whose resolved sport is not "unknown" and whose medal flag is
\* true: no canonical event has sport "unknown" or a false medal flag, and
\* no record satisfying both conditions is dropped.
C10_NormalizationKeepsExactlyKnownMedalEvents ==
    pstage # "raw" =>
        /\ Len(canonical) = Len(StatedKept)
        /\ \A k \in 1..Len(canonical) :
              /\ canonical[k] = normalizeRecord(StatedKept[k])
              /\ canonical[k].id = StatedKept[k].id
              /\ canonical[k].sport # "unknown"
              /\ canonical[k].isMedalEvent = TRUE

\* a payload has been normalized that held a kept record after a medal
\* record of unresolved sport and beside a non-medal record of known sport
C10_Witness ==
    /\ pstage # "raw"
    /\ Len(canonical) = 1
    /\ \E i, j \in 1..Len(payloadEvents(rawInput)) :
          /\ i < j
          /\ payloadEvents(rawInput)[i] \in {RawUnclassifiable, RawQualifier}
          /\ payloadEvents(rawInput)[j].id = canonical[1].id

\* the one record of a single-record payload
OneRecord == rawInput.list[1]

IsOneRecord == rawInput.kind = "array" /\ Len(rawInput.list) = 1

\* the venue of raw record e names the sliding centre, in either shape
SlidingVenue(e) ==
    \/ e.venue.kind = "string" /\ Has(ToLowerCase(e.venue.text), "sliding")
    \/ e.venue.kind = "object" /\ Has(ToLowerCase(e.venue.name), "sliding")

\* C11 as stated: a medal record with sport "unknown" and a sliding-centre
\* venue, in any venue shape, is classified "Luge" if its discipline
\* contains "singles", and "Skeleton" if its discipline contains "heat" and
\* neither "singles" nor "doubles".
C11_AsStated ==
    (/\ pstage # "raw"
     /\ IsOneRecord
     /\ OneRecord.sport = "unknown"
     /\ OneRecord.is_medal_event
     /\ SlidingVenue(OneRecord))
    => LET disc == ToLowerCase(OneRecord.discipline)
       IN  /\ Has(disc, "singles") =>
                (Len(canonical) = 1 /\ canonical[1].sport = "Luge")
           /\ (Has(disc, "heat") /\ ~Has(disc, "singles") /\ ~Has(disc, "doubles")) =>
                (Len(canonical) = 1 /\ canonical[1].sport = "Skeleton")

\* C13 as stated: normalizing the canonical events a second time returns the
\* same list, no field changed and no event dropped.
C13_AsStated ==
    pstage = "renormalized" => renormalized = canonical

\* the text of a field, empty when the field is absent
FieldText(v) == IF v = Null THEN "" ELSE v

\* the raw text fields of record e, joined by spaces, in lower case
RawGenderText(e) ==
    ToLowerCase(FieldText(e.discipline) \o " " \o FieldText(e.event) \o " "
                \o FieldText(e.eventName) \o " " \o FieldText(e.gender))

\* the gender the stated precedence gives a text: mixed, then women or
\* ladies, then the word men or men's
StatedGender(t) ==
    IF Has(t, "mixed") THEN ""
    ELSE IF Has(t, "women") \/ Has(t, "ladies") THEN "F"
    ELSE IF HasWord(t, "men") \/ Has(t, "men's") THEN "M"
    ELSE ""

\* C12: the gender of a canonical event follows the precedence mixed >
\* women/ladies > men over the joined raw text fields: "mixed" gives the
\* empty gender even beside "women's" or "men"; otherwise "women" or
\* "ladies" gives F; otherwise the word "men" or "men's" gives M;
\* otherwise the gender is empty.
C12_GenderPrecedence ==
    (pstage # "raw" /\ IsOneRecord /\ Len(canonical) = 1) =>
        canonical[1].eventGender = StatedGender(RawGenderText(OneRecord))

\* a record whose text holds "mixed", "women's" and "men's" has been
\* normalized to an event of empty gender
C12_Witness ==
    /\ pstage # "raw"
    /\ IsOneRecord
    /\ Len(canonical) = 1
    /\ Has(RawGenderText(OneRecord), "mixed")
    /\ Has(RawGenderText(OneRecord), "women's")
    /\ HasWord(RawGenderText(OneRecord), "men")
    /\ canonical[1].eventGender = ""

\* the hour field of a clock text "HH:MM" with HH in 00..23
ClockHour(t) == CHOOSE h \in 0..23 : TwoDigits(h) = SubSeq(t, 1, 2)

IsClockText(t) ==
    /\ Len(t) = 5
    /\ SubSeq(t, 3, 3) = ":"
    /\ \E h \in 0..23 : TwoDigits(h) = SubSeq(t, 1, 2)

\* the stated conversion: eight hours earlier modulo 24, minutes kept
StatedMountain(t) == TwoDigits((ClockHour(t) + 16) % 24) \o SubSeq(t, 3, 5)

\* C14: for every event time "HH:MM" with HH in 00..23 the live broadcast
\* entry carries the time eight hours earlier, wrapped modulo 24, zero-padded
\* and with the minutes unchanged ("19:00" gives "11:00", "02:00" gives
\* "18:00"), and the date of the event is not adjusted.
C14_CetToMountainWraps ==
    (pstage \in {"enriched", "matched"} /\ ruleSet.kind # "null") =>
        \A k \in 1..Len(enriched) :
            /\ enriched[k].date = canonical[k].date
            /\ enriched[k].time = canonical[k].time
            /\ \A b \in 1..Len(enriched[k].broadcast) :
                  (/\ enriched[k].id \notin DOMAIN ruleSet.eventOverrides
                   /\ enriched[k].broadcast[b].type = "live"
                   /\ IsClockText(enriched[k].time))
                  => /\ enriched[k].broadcast[b].time = StatedMountain(enriched[k].time)
                     /\ IsClockText(enriched[k].broadcast[b].time)

\* an event at 02:00 has been given a live entry at 18:00, its date as
\* delivered
C14_Witness ==
    /\ pstage = "enriched"
    /\ IsOneRecord
    /\ OneRecord.time = "02:00"
    /\ Len(enriched) = 1
    /\ enriched[1].date = OneRecord.date
    /\ Len(enriched[1].broadcast) > 0
    /\ enriched[1].broadcast[1] =
          [network |-> "NBC / USA Network", type |-> "live", time |-> "18:00"]

Enriched == pstage \in {"enriched", "matched"}

\* the broadcast list the stated rules give event evt under rule set rules:
\* the override list of the event id verbatim, else a live entry, a
\* primetime entry and a streaming entry, each only if its rule exists
StatedBroadcast(evt, rules) ==
    IF evt.id \in DOMAIN rules.eventOverrides
    THEN rules.eventOverrides[evt.id]
    ELSE LET hasNet == /\ evt.sport \in DOMAIN rules.sportNetworks
                       /\ rules.sportNetworks[evt.sport] # ""
             live == [network |-> rules.sportNetworks[evt.sport], type |-> "live",
                      time |-> cetToMountain(evt.time)]
             prime == [network |-> rules.medalPrimetime.network, type |-> "primetime",
                       time |-> rules.medalPrimetime.time]
             stream == [network |-> rules.streaming.network,
                        type |-> IF rules.streaming.type = "" THEN "streaming"
                                 ELSE rules.streaming.type]
         IN  (IF hasNet THEN <<live>> ELSE <<>>)
             \o (IF evt.isMedalEvent /\ rules.medalPrimetime.present THEN <<prime>> ELSE <<>>)
             \o (IF rules.streaming.present THEN <<stream>> ELSE <<>>)

\* C15: under a non-null rule set every event gets the override list of its
\* id verbatim, and nothing else, if the rule set has one; otherwise, in
\* this order, a live entry (only if the event's sport has a network; time
\* = the event time converted), a primetime entry (only if the event is a
\* medal event and a primetime rule exists; time = the rule's time,
\* unconverted) and a streaming entry without a time (only if a streaming
\* rule exists); the other fields of the event are unchanged.
C15_BroadcastReference ==
    (Enriched /\ ruleSet.kind # "null") =>
        /\ Len(enriched) = Len(canonical)
        /\ \A k \in 1..Len(enriched) :
              enriched[k] = [canonical[k] EXCEPT
                               !.broadcast = StatedBroadcast(canonical[k], ruleSet)]

\* one event has its override list verbatim while another, whose sport has
\* no network, has a primetime and a streaming entry
C15_Witness ==
    /\ Enriched
    /\ Len(enriched) = 2
    /\ enriched[1].id \in DOMAIN ruleSet.eventOverrides
    /\ enriched[1].broadcast = << [network |-> "CNBC", type |-> "live", time |-> "03:30"] >>
    /\ enriched[2].broadcast =
          << [network |-> "NBC", type |-> "primetime", time |-> "19:00"],
             [network |-> "Peacock", type |-> "streaming"] >>

\* the entries of type ty in the broadcast list of an event
EntriesOfType(evt, ty) ==
    {b \in 1..Len(evt.broadcast) : evt.broadcast[b].type = ty}

\* C16: every event enriched under the default rules (no override for its
\* id) has at most one primetime entry and at most one streaming entry in
\* its broadcast list.
C16_AtMostOnePrimetimeAndStreaming ==
    (Enriched /\ ruleSet.kind # "null") =>
        \A k \in 1..Len(enriched) :
            enriched[k].id \notin DOMAIN ruleSet.eventOverrides =>
                /\ Cardinality(EntriesOfType(enriched[k], "primetime")) <= 1
                /\ Cardinality(EntriesOfType(enriched[k], "streaming")) <= 1

\* an event enriched under the default rules has a live entry, one
\* primetime entry and one streaming entry
C16_Witness ==
    /\ Enriched
    /\ ruleSet.kind # "null"
    /\ \E k \in 1..Len(enriched) :
          /\ enriched[k].id \notin DOMAIN ruleSet.eventOverrides
          /\ Len(enriched[k].broadcast) = 3
          /\ Cardinality(EntriesOfType(enriched[k], "live")) = 1
          /\ Cardinality(EntriesOfType(enriched[k], "primetime")) = 1
          /\ Cardinality(EntriesOfType(enriched[k], "streaming")) = 1

\* C17 as stated: with null rules every event has an empty broadcast list,
\* and with any non-null rule set every event has a non-empty one.
C17_AsStated ==
    Enriched =>
        \A k \in 1..Len(enriched) :
            enriched[k].broadcast = <<>> <=> ruleSet.kind = "null"

\* no rule of rule set rules yields an entry for event evt
NoRuleApplies(evt, rules) ==
    /\ ~rules.streaming.present
    /\ ~(evt.isMedalEvent /\ rules.medalPrimetime.present)
    /\ ~(evt.sport \in DOMAIN rules.sportNetworks /\ rules.sportNetworks[evt.sport] # "")

\* C17 (amended): with null rules every event has an empty broadcast list.
\* With a rule set, an event has an empty list exactly when its id has an
\* empty override list or, without an override, when the rule set has no
\* streaming rule, no primetime rule for it and no network for its sport;
\* so under a rule set with a streaming rule every event without an
\* override has a non-empty list.
C17_EmptyBroadcastCases ==
    Enriched =>
        \A k \in 1..Len(enriched) :
            /\ ruleSet.kind = "null" => enriched[k].broadcast = <<>>
            /\ (ruleSet.kind # "null" /\ enriched[k].id \in DOMAIN ruleSet.eventOverrides) =>
                  enriched[k].broadcast = ruleSet.eventOverrides[enriched[k].id]
            /\ (ruleSet.kind # "null" /\ enriched[k].id \notin DOMAIN ruleSet.eventOverrides) =>
                  (enriched[k].broadcast = <<>> <=> NoRuleApplies(enriched[k], ruleSet))
            /\ (/\ ruleSet.kind # "null"
                /\ enriched[k].id \notin DOMAIN ruleSet.eventOverrides
                /\ ruleSet.streaming.present) => Len(enriched[k].broadcast) > 0

\* under a rule set with a streaming rule and no primetime rule, an event
\* whose sport has no network has the streaming entry alone
C17_Witness ==
    /\ Enriched
    /\ ruleSet.kind # "null"
    /\ ruleSet.streaming.present
    /\ ~ruleSet.medalPrimetime.present
    /\ \E k \in 1..Len(enriched) :
          /\ enriched[k].sport \notin DOMAIN ruleSet.sportNetworks
          /\ Len(enriched[k].broadcast) = 1
          /\ enriched[k].broadcast[1].type = "streaming"

\* the sport key the matcher compares: lower case, trimmed, aliases resolved
SportKey(name) ==
    LET lower == Trim(ToLowerCase(name))
    IN  IF lower \in DOMAIN sportAliases THEN sportAliases[lower] ELSE lower

\* roster member ath is in the sport bucket of event evt
InSportBucket(ath, evt) == SportKey(ath.sport) = SportKey(evt.sport)

\* the gender step keeps ath for evt
GenderCompatible(ath, evt) ==
    evt.eventGender = "" \/ ath.gender = "" \/ ath.gender = evt.eventGender

\* the padded discipline and event text of evt, in lower case
PaddedText(evt) ==
    " " \o Trim(ToLowerCase(evt.discipline)) \o " " \o Trim(ToLowerCase(evt.event)) \o " "

\* label occurs in the padded text of evt, or one of its aliases does
LabelHits(label, evt) ==
    LET l == ToLowerCase(label)
    IN  \/ Has(PaddedText(evt), l)
        \/ /\ l \in DOMAIN eventAliases
           /\ \E a \in 1..Len(eventAliases[l]) : Has(PaddedText(evt), eventAliases[l][a])

\* the discipline step keeps ath for evt
DisciplineCompatible(ath, evt) ==
    Len(ath.events) = 0 \/ \E e \in 1..Len(ath.events) : LabelHits(ath.events[e], evt)

\* roster member ath is attached to the matched event of enriched event evt
Attached(ath, evt) ==
    \E j \in 1..Len(matched) :
        /\ matched[j].id = evt.id
        /\ \E i \in 1..Len(matched[j].athletes) : matched[j].athletes[i] = ath

\* C18: within the sport and gender bucket of an event, a roster member
\* with declared event labels is kept exactly when a label occurs, in any
\* case, in the padded discipline and event text or has an alias that
\* does; a member with no declared events is kept for every event of the
\* bucket.
C18_DisciplineNarrowing ==
    pstage = "matched" =>
        \A k \in 1..Len(enriched), a \in 1..Len(roster) :
            (InSportBucket(roster[a], enriched[k]) /\ GenderCompatible(roster[a], enriched[k]))
            => (Attached(roster[a], enriched[k])
                  <=> DisciplineCompatible(roster[a], enriched[k]))

\* a member who declared Downhill and Super-G is attached to the downhill
\* and not to the slalom, a member without declared events to both
C18_Witness ==
    /\ pstage = "matched"
    /\ Len(matched) = 2
    /\ \E a, b \in 1..Len(roster) :
          /\ roster[a].events = <<"Downhill", "Super-G">>
          /\ roster[b].events = <<>>
          /\ matched[1].event = "Men's Downhill"
          /\ matched[1].athletes = <<roster[a], roster[b]>>
          /\ matched[2].event = "Men's Slalom"
          /\ matched[2].athletes = <<roster[b]>>

\* C19: no athlete attached to an event with a gender has a different
\* declared gender, also when the athlete declared no events; and an
\* athlete without a declared gender is never removed by the gender step:
\* in the sport bucket such an athlete is attached whenever the discipline
\* step keeps them.
C19_GenderFilter ==
    pstage = "matched" =>
        /\ \A j \in 1..Len(matched) :
              \A i \in 1..Len(matched[j].athletes) :
                  matched[j].eventGender # "" =>
                      matched[j].athletes[i].gender \in {"", matched[j].eventGender}
        /\ \A k \in 1..Len(enriched), a \in 1..Len(roster) :
              (/\ InSportBucket(roster[a], enriched[k])
               /\ roster[a].gender = ""
               /\ DisciplineCompatible(roster[a], enriched[k]))
              => Attached(roster[a], enriched[k])

\* a women's event has been matched with a roster that holds a man of its
\* sport without declared events, who is left out, and a member without a
\* declared gender, who is attached
C19_Witness ==
    /\ pstage = "matched"
    /\ \E j \in 1..Len(matched) :
          /\ matched[j].eventGender = "F"
          /\ \E a \in 1..Len(roster) :
                /\ InSportBucket(roster[a], matched[j])
                /\ roster[a].gender = "M"
                /\ roster[a].events = <<>>
                /\ ~Attached(roster[a], matched[j])
          /\ \E i \in 1..Len(matched[j].athletes) : matched[j].athletes[i].gender = ""

\* the roster members the stated steps leave for evt, in roster order
Remaining(evt) ==
    SelectSeq(roster, LAMBDA ath : /\ InSportBucket(ath, evt)
                                   /\ GenderCompatible(ath, evt)
                                   /\ DisciplineCompatible(ath, evt))

HasRemaining(evt) == Len(Remaining(evt)) > 0

\* C20: the matcher returns exactly the input events, in input order, that
\* have at least one roster member left after the gender and discipline
\* steps, each with those members; no returned event has an empty athletes
\* list and every event with nobody left is dropped.
C20_MatchedExactlyEventsWithAthletes ==
    pstage = "matched" =>
        LET kept == SelectSeq(enriched, HasRemaining)
        IN  /\ Len(matched) = Len(kept)
            /\ \A j \in 1..Len(matched) :
                  /\ matched[j].id = kept[j].id
                  /\ matched[j].athletes = Remaining(kept[j])
                  /\ Len(matched[j].athletes) > 0

\* of three events the middle one, with nobody left, has been dropped and
\* the other two returned in input order
C20_Witness ==
    /\ pstage = "matched"
    /\ Len(enriched) = 3
    /\ ~HasRemaining(enriched[2])
    /\ Len(matched) = 2
    /\ matched[1].id = enriched[1].id
    /\ matched[2].id = enriched[3].id

\* the artifact strings the cleaning is stated to strip: the medal-event
\* marker, the venue names, and the venue-name fragments of venue synthesis
StatedArtifacts ==
    { "Medal Event", "Livigno Aerials & Moguls Park", "Livigno Snow Park",
      "Stelvio Ski Centre", "Tofane Alpine Skiing Centre",
      "Tesero Cross-Country Skiing Stadium", "Predazzo Ski Jumping Stadium",
      "Cortina Sliding Centre", "Milano Ice Skating Arena", "PalaSharp",
      "Livigno Aerials", "Livigno Snow", "Stelvio", "Tofane", "Tesero", "Predazzo" }

\* C23 as stated: for every raw discipline text, the discipline of the
\* canonical event contains none of the stripped artifact strings (medal
\* marker, venue names) and none of the venue-name fragments used for venue
\* synthesis.
C23_AsStated ==
    pstage # "raw" =>
        \A k \in 1..Len(canonical), a \in StatedArtifacts :
            ~Has(canonical[k].discipline, a)

\* the lower-case raw discipline text t contains a snowboard marker:
\* "sbd " or "pgs " anywhere, "pgs" at its start, "snowboard" or "sbx"
StatedSnowboardMarker(t) ==
    \/ Has(t, "sbd ")
    \/ Has(t, "pgs ")
    \/ (Len(t) >= 3 /\ SubSeq(t, 1, 3) = "pgs")
    \/ Has(t, "snowboard")
    \/ Has(t, "sbx")

\* C24: whenever the sport resolved in step 1 is "Freestyle Skiing", from
\* the code table or from the classification heuristic, and the raw
\* discipline text contains a snowboard marker, the canonical event's sport
\* is "Snowboard"; an event whose resolved sport is anything else keeps its
\* resolved sport, marker or not.
C24_SnowboardOverride ==
    (pstage # "raw" /\ IsOneRecord /\ OneRecord.is_medal_event) =>
        LET resolved == resolveSport(OneRecord)
            marked == StatedSnowboardMarker(ToLowerCase(FieldText(OneRecord.discipline)))
        IN  /\ (resolved = "Freestyle Skiing" /\ marked) =>
                  (Len(canonical) = 1 /\ canonical[1].sport = "Snowboard")
            /\ (resolved \notin {"Freestyle Skiing", "unknown"}) =>
                  (Len(canonical) = 1 /\ canonical[1].sport = resolved)

\* a record of unknown sport, classified Freestyle Skiing by its discipline
\* text, has become a Snowboard event
C24_Witness ==
    /\ pstage # "raw"
    /\ IsOneRecord
    /\ OneRecord.sport = "unknown"
    /\ classifyUnknownEvent(OneRecord) = "Freestyle Skiing"
    /\ Len(canonical) = 1
    /\ canonical[1].sport = "Snowboard"

\* the name of the venue of raw record e, in lower case; a venue that is
\* absent, or that is not an object with a name, has none
StatedVenueName(e) ==
    IF e.venue.kind = "object" /\ e.venue.name # Null THEN ToLowerCase(e.venue.name) ELSE ""

\* some keyword of set keys occurs in text t
HasAny(t, keys) == \E k \in keys : Has(t, k)

\* the stated rules in their priority order, first match wins; slope says
\* whether the rule "slopestyle" with "livigno" stands between the
\* freestyle keywords and the alpine keywords.  The empty string: no rule.
StatedClassification(e, slope) ==
    LET disc == ToLowerCase(FieldText(e.discipline))
        venue == StatedVenueName(e)
    IN  IF Has(venue, "sliding")
        THEN IF HasAny(disc, {"singles", "doubles", "mixed team", "team relay"}) THEN "Luge"
             ELSE IF Has(disc, "heat") THEN "Skeleton"
             ELSE "Luge"
        ELSE IF HasAny(venue, {"ice skating", "palasharp"})
        THEN IF HasAny(disc, {"single skating", "team event", "free skating",
                              "ice danc", "pairs"})
             THEN "Figure Skating"
             ELSE "Short Track Speed Skating"
        ELSE IF HasAny(disc, {"aerials", "moguls", "freeski", "ski cross"})
        THEN "Freestyle Skiing"
        ELSE IF slope /\ Has(disc, "slopestyle") /\ Has(disc, "livigno")
        THEN "Freestyle Skiing"
        ELSE IF HasAny(disc, {"stelvio", "combined"}) THEN "Alpine Skiing"
        ELSE IF HasAny(disc, {"medal game", "semi-final"}) THEN "Ice Hockey"
        ELSE ""

\* a medal record of unknown or absent sport, normalized alone, gives the
\* event of sport st (after the snowboard override), or no event when st
\* is the empty string
ClassifiedAs(st) ==
    IF st = "" THEN Len(canonical) = 0
    ELSE /\ Len(canonical) = 1
         /\ canonical[1].sport =
               IF /\ st = "Freestyle Skiing"
                  /\ StatedSnowboardMarker(ToLowerCase(FieldText(OneRecord.discipline)))
               THEN "Snowboard" ELSE st

IsUnknownRecord ==
    /\ pstage # "raw"
    /\ IsOneRecord
    /\ OneRecord.is_medal_event
    /\ OneRecord.sport \in {Null, "", "unknown"}

Label(x) == Trim(ToLowerCase(x.sport))

\* C28: roster members are indexed and events looked up by one canonical
\* sport key (lowercased, trimmed, passed through the alias table): every
\* athlete attached to a matched event has the canonical sport of the
\* event; the labels "bobsled" and "bobsleigh" have the key "bobsleigh" and
\* the labels "freestyle aerials" and "freestyle moguls" the key "freestyle
\* skiing", so members under either label are candidates of the same
\* events; and canonicalizing a key again returns it unchanged, for every
\* roster label, event sport and entry of the alias table.
C28_OneCanonicalSportKey ==
    pstage = "matched" =>
        /\ \A j \in 1..Len(matched) :
              \A i \in 1..Len(matched[j].athletes) :
                  normalizeSport(matched[j].athletes[i].sport) = normalizeSport(matched[j].sport)
        /\ \A a \in 1..Len(roster) :
              /\ Label(roster[a]) \in {"bobsled", "bobsleigh"} =>
                    normalizeSport(roster[a].sport) = "bobsleigh"
              /\ Label(roster[a]) \in {"freestyle aerials", "freestyle moguls"} =>
                    normalizeSport(roster[a].sport) = "freestyle skiing"
              /\ normalizeSport(normalizeSport(roster[a].sport)) = normalizeSport(roster[a].sport)
        /\ \A k \in 1..Len(enriched) :
              /\ normalizeSport(normalizeSport(enriched[k].sport)) = normalizeSport(enriched[k].sport)
              /\ \A a, b \in 1..Len(roster) :
                    (/\ {Label(roster[a]), Label(roster[b])} \in
                           {{"bobsled", "bobsleigh"}, {"freestyle aerials", "freestyle moguls"}}
                     /\ roster[a].events = <<>> /\ roster[b].events = <<>>
                     /\ GenderCompatible(roster[a], enriched[k])
                     /\ GenderCompatible(roster[b], enriched[k]))
                    => (Attached(roster[a], enriched[k]) <=> Attached(roster[b], enriched[k]))
        /\ \A k \in DOMAIN sportAliases :
              normalizeSport(normalizeSport(k)) = normalizeSport(k)

\* a bobsleigh event carries a member listed under "Bobsled" and one under
\* " BOBSLEIGH ", and a freestyle skiing event one listed under "Freestyle
\* Aerials" and one under "Freestyle Moguls"
C28_Witness ==
    /\ pstage = "matched"
    /\ \E j \in 1..Len(matched) :
          /\ matched[j].sport = "Bobsleigh"
          /\ {matched[j].athletes[i].sport : i \in 1..Len(matched[j].athletes)}
                = {"Bobsled", " BOBSLEIGH "}
    /\ \E j \in 1..Len(matched) :
          /\ matched[j].sport = "Freestyle Skiing"
          /\ {matched[j].athletes[i].sport : i \in 1..Len(matched[j].athletes)}
                = {"Freestyle Aerials", "Freestyle Moguls"}

(***************************************************************************)
(* The cache probe: one entry is written, time passes in steps that land   *)
(* on and next to the TTL and the window boundaries, and the entry is read *)
(* by getCache and by getCacheWithAge.                                     *)
(***************************************************************************)
\* clock advances in one behaviour of the probe
MaxCacheTicks == 3

\* the steps of the probe's clock: a millisecond, and the two TTLs
CacheSteps == {1, 30 * MinuteMs, DayMs}

\* the probe starts a day and a millisecond before the window opens, or
\* half an hour before it closes
CacheStartTimes == {SeasonStart - DayMs - 1, SeasonEnd - 30 * MinuteMs}

CacheInit ==
    /\ pstage = "cache"
    /\ rawInput = [kind |-> "neither", list |-> <<>>]
    /\ roster = <<>>
    /\ ruleSet = NoRules
    /\ canonical = <<>>
    /\ enriched = <<>>
    /\ matched = <<>>
    /\ renormalized = <<>>
    /\ now \in CacheStartTimes
    /\ ticks = 0
    /\ apiKey = TRUE
    /\ apiUp = TRUE
    /\ localUp = TRUE
    /\ schedItem \in {NoItem, GarbageItem}
    /\ bcItem = NoItem
    /\ throttleItem = Null
    /\ calls = <<>>
    /\ bg = {}
    /\ apiLog = {}
    /\ cacheRead = NoRead

\* setCache(SCHEDULE_CACHE_KEY, data)
CacheWrite ==
    /\ pstage = "cache"
    /\ schedItem.kind # "entry"
    /\ schedItem' = setCache(now, fallbackEvents)
    /\ UNCHANGED <<pipeVars, cacheRead, now, ticks, apiKey, apiUp, localUp, bcItem,
                   throttleItem, calls, bg, apiLog>>

\* time passes
CacheTick(d) ==
    /\ pstage = "cache"
    /\ ticks < MaxCacheTicks
    /\ now' = now + d
    /\ ticks' = ticks + 1
    /\ UNCHANGED <<pipeVars, cacheRead, apiKey, apiUp, localUp, schedItem, bcItem,
                   throttleItem, calls, bg, apiLog>>

\* getCache(SCHEDULE_CACHE_KEY) and getCacheWithAge(SCHEDULE_CACHE_KEY) on a
\* page whose forceRefresh() is flag
CacheRead(flag) ==
    /\ pstage = "cache"
    /\ cacheRead' = [kind |-> "read", at |-> now, flag |-> flag, item |-> schedItem,
                     hit |-> getCacheHit(flag, schedItem, now),
                     age |-> getCacheWithAge(schedItem, now)]
    /\ UNCHANGED <<pipeVars, now, ticks, apiKey, apiUp, localUp, schedItem, bcItem,
                   throttleItem, calls, bg, apiLog>>

CacheNext ==
    \/ CacheWrite
    \/ \E d \in CacheSteps : CacheTick(d)
    \/ \E flag \in BOOLEAN : CacheRead(flag)

SpecCache == CacheInit /\ [][CacheNext]_vars

(***************************************************************************)
(* Properties of the cache (checked under SpecCache)                       *)
(***************************************************************************)
\* the TTL as the specification states it: 30 minutes at a query time
\* inside the competition window, 24 hours outside
StatedTTL(t) == IF SeasonStart <= t /\ t <= SeasonEnd THEN 30 * MinuteMs ELSE DayMs

EntryRead == cacheRead.kind = "read" /\ cacheRead.item.kind = "entry"

ReadAge == cacheRead.at - cacheRead.item.timestamp

DocumentedTTL(t) == IF InSeason(t) THEN 4 * HourMs ELSE DayMs

\* C21 as stated: a cache entry is read as fresh for 4 hours during the
\* Olympics and for 24 hours off-season: a read at time T' of an entry
\* written at T is fresh exactly when T' - T is within the documented TTL.
C21_AsStated ==
    EntryRead => (cacheRead.age = "fresh" <=> ReadAge <= DocumentedTTL(cacheRead.at))

(***************************************************************************)
(* Properties of the orchestrator (checked under Spec)                     *)
(***************************************************************************)
CallIds == 1..Len(calls)

\* the throttle window as the specification states it: one hour inside the
\* competition window, 24 hours outside, read at the time of the call
StatedWindow(t) == IF SeasonStart <= t /\ t <= SeasonEnd THEN HourMs ELSE DayMs

\* the Refresh Throttle permits a refresh at the time of call c: no attempt
\* is recorded, or the last recorded attempt is older than the window
ThrottlePermits(c) ==
    \/ c.throttleBefore = Null
    \/ c.at - ParseInt(c.throttleBefore) > StatedWindow(c.at)

\* requests call i sent to the live event API, itself or by its refresh
RequestsOf(i) == {r \in apiLog : r.by = i}

IsFreshCall(c) == ~c.flag /\ getCacheWithAge(c.itemBefore, c.at) = "fresh"

IsStaleCall(c) == ~c.flag /\ getCacheWithAge(c.itemBefore, c.at) = "stale"

IsNoCacheCall(c) == ~c.flag /\ getCacheWithAge(c.itemBefore, c.at) = "none"

\* C1: a call without the bypass flag that finds a fresh schedule cache entry
\* returns the cached events with the broadcast rules applied, sends no
\* request to the live event API, schedules no background refresh and leaves
\* the throttle timestamp as it was.
C1_FreshCacheNoOutboundCall ==
    \A i \in CallIds :
        IsFreshCall(calls[i]) =>
            /\ calls[i].status # "rejected"
            /\ calls[i].status = "resolved" =>
                 calls[i].result = applyBroadcastRules(calls[i].itemBefore.data, calls[i].rules)
            /\ RequestsOf(i) = {}
            /\ ~calls[i].bgScheduled
            /\ \A task \in bg : task.by # i
            /\ calls[i].throttleAfter = calls[i].throttleBefore

\* a fresh-cache call has returned events although a refresh attempt was
\* recorded earlier
C1_Witness ==
    \E i \in CallIds :
        /\ IsFreshCall(calls[i])
        /\ calls[i].status = "resolved"
        /\ Len(calls[i].result) > 0
        /\ calls[i].throttleBefore # Null

\* C2: a call without the bypass flag that finds a stale schedule cache entry
\* returns the cached data without awaiting the live API (its promise
\* settles as soon as the broadcast rules are there), and a background fetch
\* is scheduled exactly when an API key is configured and the throttle
\* permits; a throttled call sends no request to the live API.
C2_StaleCacheBackgroundIffPermitted ==
    \A i \in CallIds :
        IsStaleCall(calls[i]) =>
            /\ calls[i].sched = "ready"
            /\ calls[i].events = calls[i].itemBefore.data
            /\ calls[i].bc = "ready" => calls[i].status = "resolved"
            /\ calls[i].status = "resolved" =>
                 calls[i].result = applyBroadcastRules(calls[i].itemBefore.data, calls[i].rules)
            /\ calls[i].bgScheduled <=> (apiKey /\ ThrottlePermits(calls[i]))
            /\ ~calls[i].bgScheduled => RequestsOf(i) = {} /\ \A task \in bg : task.by # i
            /\ \A r \in RequestsOf(i) : r.kind = "background"

\* a stale-cache call with an API key was throttled and has returned
C2_Witness ==
    \E i \in CallIds :
        /\ IsStaleCall(calls[i])
        /\ apiKey
        /\ ~calls[i].bgScheduled
        /\ calls[i].status = "resolved"

\* C3 as stated: in the no-cache branch a background refresh is scheduled if
\* and only if the throttle permits.
C3_AsStated ==
    \A i \in CallIds :
        IsNoCacheCall(calls[i]) => (calls[i].bgScheduled <=> ThrottlePermits(calls[i]))

\* C3 (amended): a call without the bypass flag that finds no schedule cache
\* entry hands its caller the static fallback dataset (never live data), its
\* promise awaits the static file and the broadcast rules only, and a
\* background refresh is scheduled exactly when the throttle permits and an
\* API key is configured.
C3_NoCacheStaticFallback ==
    \A i \in CallIds :
        IsNoCacheCall(calls[i]) =>
            /\ calls[i].sched \in {"local", "ready", "failed"}
            /\ calls[i].sched = "ready" => calls[i].events = fallbackEvents
            /\ (calls[i].sched = "ready" /\ calls[i].bc = "ready") => calls[i].status = "resolved"
            /\ calls[i].status = "resolved" =>
                 calls[i].result = applyBroadcastRules(fallbackEvents, calls[i].rules)
            /\ \A r \in RequestsOf(i) : r.kind = "background"
            /\ calls[i].bgScheduled <=> (apiKey /\ ThrottlePermits(calls[i]))

\* a no-cache call has returned while the refresh it scheduled is still
\* waiting for its timer
C3_Witness ==
    \E i \in CallIds :
        /\ IsNoCacheCall(calls[i])
        /\ calls[i].status = "resolved"
        /\ calls[i].bgScheduled
        /\ \E task \in bg : task.by = i /\ task.stage = "timer"

BypassEvents(c) ==
    IF apiUp THEN c.events \in {liveEvents[p] : p \in LivePayloads}
    ELSE c.events = fallbackEvents

\* C4 (amended): with the refresh flag set and an API key configured,
\* whatever the cache and the throttle hold, fetchSchedule awaits a request
\* to the live API, never hands on data read from the cache, and writes what
\* it fetched to the schedule cache; the throttle timestamp plays no part.
C4_BypassInv ==
    \A i \in CallIds :
        (calls[i].flag /\ apiKey) =>
            /\ calls[i].branch = "bypass"
            /\ [by |-> i, kind |-> "bypass"] \in apiLog
            /\ ~calls[i].bgScheduled
            /\ calls[i].throttleAfter = calls[i].throttleBefore
            /\ calls[i].sched = "ready" => BypassEvents(calls[i])
            /\ calls[i].status = "resolved" =>
                 calls[i].result = applyBroadcastRules(calls[i].events, calls[i].rules)

C4_BypassWrite ==
    \A i \in CallIds :
        (calls[i].flag /\ apiKey /\ calls[i].sched # "ready" /\ calls'[i].sched = "ready") =>
            schedItem' = [kind |-> "entry", timestamp |-> now, data |-> calls'[i].events]

C5_AsStated ==
    \A j \in CallIds :
        (~calls[j].flag /\ calls[j].pendingBefore) => ~calls[j].bgScheduled

\* C5 (amended): a call without the bypass flag that arrives within the
\* throttle window of the last recorded attempt is throttled and sends no
\* request to the live API, so any two background refresh attempts are more
\* than the throttle window (read at the later one) apart; a refresh still
\* under way after the window has passed does not throttle.
C5_AttemptsApartByWindow ==
    /\ \A i, j \in CallIds :
          (i < j /\ calls[i].bgScheduled /\ calls[j].bgScheduled) =>
              calls[j].at - calls[i].at > StatedWindow(calls[j].at)
    /\ \A i, j \in CallIds :
          (/\ i < j
           /\ ~calls[j].flag
           /\ calls[i].bgScheduled
           /\ calls[j].at - calls[i].at <= StatedWindow(calls[j].at))
          => (~calls[j].bgScheduled /\ RequestsOf(j) = {})

\* a second call arrived while the refresh of the first was still pending,
\* within the window, and was throttled
C5_Witness ==
    \E i, j \in CallIds :
        /\ i < j
        /\ calls[i].bgScheduled
        /\ ~calls[j].flag
        /\ calls[j].branch \in {"stale", "nocache"}
        /\ calls[j].pendingBefore
        /\ ~calls[j].bgScheduled

\* C6: a background refresh never changes events already handed to a caller,
\* nor what a call under way will hand on: a stale-cache call returns the
\* data it read even when a refresh overwrites the entry before its promise
\* resolves; the steps of a refresh change the schedule cache entry only.
C6_HandedInv ==
    \A i \in CallIds :
        (calls[i].branch \in {"fresh", "stale"} /\ calls[i].status = "resolved") =>
            calls[i].result = applyBroadcastRules(calls[i].itemBefore.data, calls[i].rules)

C6_HandedStep ==
    /\ \A i \in CallIds :
          calls[i].status = "resolved" =>
              (calls'[i].status = "resolved" /\ calls'[i].result = calls[i].result)
    /\ (bg' # bg /\ Len(calls') = Len(calls)) =>
          (calls' = calls /\ bcItem' = bcItem /\ throttleItem' = throttleItem)

C6_RefreshLeavesHandedData == []C6_HandedInv /\ [][C6_HandedStep]_vars

\* a stale-cache call returned the old events after its own refresh had
\* already written other events to the cache
C6_Witness ==
    \E i \in CallIds :
        /\ calls[i].branch = "stale"
        /\ calls[i].status = "resolved"
        /\ calls[i].bgScheduled
        /\ \A task \in bg : task.by # i
        /\ schedItem.timestamp > calls[i].at
        /\ schedItem.data # calls[i].itemBefore.data
        /\ Len(calls[i].result) > 0

\* C8 as stated: in every branch the promise rejects only if both the live
\* API and the static fallback fail.
C8_AsStated ==
    \A i \in CallIds :
        calls[i].status = "rejected" => (~apiUp /\ ~localUp)

\* C8 (amended): the fresh and stale branches never reject; a bypass call
\* rejects only if both the live API and the static fallback fail; a
\* no-cache call, which never asks the live API for its result, rejects
\* only if the static fallback fails, whether or not the live API is
\* available.
C8_RejectsOnlyWhenSourcesFail ==
    \A i \in CallIds :
        calls[i].status = "rejected" =>
            /\ ~localUp
            /\ calls[i].branch \in {"bypass", "nocache"}
            /\ calls[i].branch = "bypass" => ~apiUp

\* a bypass call whose live request failed has returned the static fallback
C8_Witness ==
    \E i \in CallIds :
        /\ calls[i].branch = "bypass"
        /\ ~apiUp
        /\ localUp
        /\ calls[i].status = "resolved"
        /\ Len(calls[i].result) > 0

\* the call found a schedule cache value that does not parse
FoundCorrupt(c) == c.itemBefore.kind = "garbage"

\* C22: when the persisted schedule value cannot be parsed, fetchSchedule
\* treats the cache as absent: a call that reads it (no bypass) takes the
\* no-cache branch, hands on the static fallback and nothing read from the
\* corrupt value, rejects only if the static file itself fails, and
\* schedules a background refresh only if the throttle permits, and always
\* when it permits and an API key is configured.
C22_CorruptCacheTreatedAsAbsent ==
    \A i \in CallIds :
        (FoundCorrupt(calls[i]) /\ ~(calls[i].flag /\ apiKey)) =>
            /\ calls[i].branch = "nocache"
            /\ calls[i].sched \in {"local", "ready", "failed"}
            /\ calls[i].sched = "failed" <=> calls[i].status = "rejected"
            /\ calls[i].status = "rejected" => ~localUp
            /\ calls[i].sched = "ready" => calls[i].events = fallbackEvents
            /\ calls[i].status = "resolved" =>
                 /\ calls[i].result = applyBroadcastRules(fallbackEvents, calls[i].rules)
                 /\ Len(calls[i].result) > 0
            /\ calls[i].bgScheduled => ThrottlePermits(calls[i])
            /\ (apiKey /\ ThrottlePermits(calls[i])) => calls[i].bgScheduled

\* a call that found a corrupt value has returned the static fallback and
\* its background refresh has replaced the corrupt value
C22_Witness ==
    \E i \in CallIds :
        /\ FoundCorrupt(calls[i])
        /\ ~calls[i].flag
        /\ calls[i].status = "resolved"
        /\ calls[i].bgScheduled
        /\ \A task \in bg : task.by # i
        /\ schedItem.kind = "entry"
        /\ schedItem.data # fallbackEvents

\* the step is the answer to the request of background refresh task
AnswersRefresh(task) == task \in bg /\ task.stage = "fetch" /\ bg' = bg \ {task}

\* the entries a successful, non-empty background fetch writes at time t
RefreshedEntries(t) ==
    {[kind |-> "entry", timestamp |-> t, data |-> liveEvents[p]] :
        p \in {q \in LivePayloads : Len(liveEvents[q]) > 0}}

\* C25: the answer to a background refresh surfaces no error to any caller
\* (no call changes, none rejects); when the fetch failed (network error or
\* non-2xx response) the schedule cache entry keeps its value and its
\* timestamp; and whenever the entry changes, the fetch succeeded and the
\* entry holds at least one normalized live event, stamped with the time of
\* the write (a response that normalizes to no event leaves it unchanged).
C25_Step ==
    \A task \in bg :
        AnswersRefresh(task) =>
            /\ calls' = calls
            /\ ~apiUp => schedItem' = schedItem
            /\ schedItem' # schedItem => (apiUp /\ schedItem' \in RefreshedEntries(now))

C25_FailedOrEmptyRefreshKeepsCache == [][C25_Step]_vars

\* a stale-cache call's background request has failed: the request was
\* sent, no task is left, the call has returned the cached events and the
\* entry is the one the call found
C25_Witness ==
    \E i \in CallIds :
        /\ calls[i].branch = "stale"
        /\ calls[i].bgScheduled
        /\ [by |-> i, kind |-> "background"] \in apiLog
        /\ \A task \in bg : task.by # i
        /\ ~apiUp
        /\ calls[i].status = "resolved"
        /\ Len(calls[i].result) > 0
        /\ schedItem = calls[i].itemBefore

\* C26: the throttle timestamp is a record of its own, written once per
\* background refresh attempt, at scheduling time and whether or not the
\* fetch later succeeds: a call that schedules a refresh stores the time of
\* the call, a call that schedules none (a fresh-cache call among them)
\* leaves the record as it was; no other step writes it, and no step that
\* writes it touches the cache entry; after an attempt, failed or not, no
\* background fetch is made by a call within the throttle window.
C26_Inv ==
    /\ \A i \in CallIds :
          /\ calls[i].bgScheduled => calls[i].throttleAfter = IntToString(calls[i].at)
          /\ ~calls[i].bgScheduled => calls[i].throttleAfter = calls[i].throttleBefore
          /\ calls[i].branch = "fresh" => calls[i].throttleAfter = calls[i].throttleBefore
          /\ Cardinality({task \in bg : task.by = i}) <= 1
    /\ \A i, j \in CallIds :
          (/\ i < j
           /\ calls[i].bgScheduled
           /\ ~calls[j].flag
           /\ calls[j].at - calls[i].at <= StatedWindow(calls[j].at))
          => /\ ~calls[j].bgScheduled
             /\ RequestsOf(j) = {}
             /\ \A task \in bg : task.by # j

C26_Step ==
    throttleItem' # throttleItem =>
        /\ Len(calls') = Len(calls) + 1
        /\ calls'[Len(calls')].bgScheduled
        /\ throttleItem' = IntToString(now)
        /\ schedItem' = schedItem
        /\ now' = now

C26_ThrottleWrittenAtScheduling == []C26_Inv /\ [][C26_Step]_vars

\* the request of a first attempt failed, and a later call over a stale
\* entry, within the window of that attempt, made no attempt of its own;
\* the throttle record still holds the time of the first attempt
C26_Witness ==
    \E i, j \in CallIds :
        /\ i < j
        /\ ~apiUp
        /\ apiKey
        /\ calls[i].bgScheduled
        /\ [by |-> i, kind |-> "background"] \in apiLog
        /\ bg = {}
        /\ calls[j].branch = "stale"
        /\ calls[j].at > calls[i].at
        /\ ~calls[j].bgScheduled
        /\ throttleItem = IntToString(calls[i].at)
        /\ calls[j].status = "resolved"

\* the background refresh of no-cache call i has written live data to the
\* schedule cache entry: its request was sent and answered, and the entry
\* holds a live event list written since the call
RefreshWroteLive(i) ==
    /\ calls[i].branch = "nocache"
    /\ calls[i].bgScheduled
    /\ [by |-> i, kind |-> "background"] \in apiLog
    /\ \A task \in bg : task.by # i
    /\ schedItem.kind = "entry"
    /\ schedItem.timestamp >= calls[i].at
    /\ schedItem.data \in {liveEvents[p] : p \in LivePayloads}
    /\ schedItem.data # fallbackEvents

\* C29 as stated: in the no-cache branch, under every interleaving of the
\* completions of the static-fallback load and the background refresh,
\* once the refresh has written live data to the schedule cache entry, the
\* static-fallback load of the same call does not overwrite it.
C29_Step ==
    \A i \in CallIds :
        (RefreshWroteLive(i) /\ calls[i].sched = "local" /\ calls'[i].sched # "local")
        => schedItem' = schedItem

C29_AsStated == [][C29_Step]_vars

(***************************************************************************)
(* Progress of the refresh (checked under SpecRefresh)                     *)
(***************************************************************************)
\* call j, the call after stale-cache call i, found the entry the
\* background refresh of call i wrote
FoundRefreshOf(i, j) ==
    /\ j = i + 1
    /\ IsStaleCall(calls[i])
    /\ calls[i].bgScheduled
    /\ calls[j].itemBefore.kind = "entry"
    /\ calls[j].itemBefore.timestamp >= calls[i].at + RefreshDelay
    /\ calls[j].itemBefore.data \in {liveEvents[p] : p \in LivePayloads}

\* call j is served the entry it found as fresh cache, with no request to
\* the live API and no refresh scheduled
ServedFresh(j) ==
    /\ calls[j].branch = "fresh"
    /\ calls[j].events = calls[j].itemBefore.data
    /\ Len(calls[j].events) > 0
    /\ calls[j].status = "resolved" =>
          calls[j].result = applyBroadcastRules(calls[j].itemBefore.data, calls[j].rules)
    /\ RequestsOf(j) = {}
    /\ ~calls[j].bgScheduled
    /\ \A task \in bg : task.by # j

\* a stale-cache call with an API key and a permitting throttle schedules
\* a background fetch
StaleSchedules ==
    \A i \in CallIds :
        (IsStaleCall(calls[i]) /\ apiKey /\ ThrottlePermits(calls[i])) =>
            /\ calls[i].bgScheduled
            /\ \/ \E task \in bg : task.by = i
               \/ [by |-> i, kind |-> "background"] \in apiLog

\* C30 as stated: a stale-cache call with an API key and a permitting
\* throttle schedules a background fetch, and if that fetch succeeds with a
\* non-empty list, the next fetchSchedule call, whatever its flag, made
\* within the TTL in force when the entry was written, is served the
\* refreshed data as fresh cache with no further live-API call.
C30_AsStated ==
    /\ StaleSchedules
    /\ \A i, j \in CallIds :
          (/\ FoundRefreshOf(i, j)
           /\ calls[j].at - calls[j].itemBefore.timestamp
                 <= StatedTTL(calls[j].itemBefore.timestamp))
          => ServedFresh(j)

\* C30 (amended): a stale-cache call with an API key and a permitting
\* throttle schedules a background fetch, and if that fetch succeeds with a
\* non-empty list, the next call without the bypass flag, made when the age
\* of the written entry is within the TTL in force at the time of that
\* call, is served the refreshed data as fresh cache with no further
\* live-API call.
C30_RefreshedDataServedFresh ==
    /\ StaleSchedules
    /\ \A i, j \in CallIds :
          (/\ FoundRefreshOf(i, j)
           /\ ~calls[j].flag
           /\ calls[j].at - calls[j].itemBefore.timestamp <= StatedTTL(calls[j].at))
          => ServedFresh(j)

\* the refresh of a stale-cache call has written live events, and the next
\* call has returned them from the fresh cache
C30_Witness ==
    \E i, j \in CallIds :
        /\ FoundRefreshOf(i, j)
        /\ ~calls[j].flag
        /\ calls[j].branch = "fresh"
        /\ calls[j].status = "resolved"
        /\ Len(calls[j].result) > 0
        /\ calls[j].itemBefore.data # calls[i].itemBefore.data

=============================================================================
